---- MODULE Spec2Model ----
(***************************************************************************)
(* The accounts constraint compiler of anchor-lang-syn                     *)
(* (lang/syn/src/codegen/accounts/constraints.rs) and the code it emits.   *)
(*                                                                         *)
(* A Field carries a ConstraintGroup.  generate linearizes the group and   *)
(* emits one check per constraint; the emitted sequence runs at the top    *)
(* of an instruction, check after check, returning at the first error.     *)
(* The init check creates the account through invocations of the system    *)
(* program (and of the token programs for the token kinds).                *)
(*                                                                         *)
(* Option<T> is modelled as a sequence of length 0 (None) or 1 (Some).     *)
(***************************************************************************)
EXTENDS Integers, Sequences, FiniteSets, TLC

VARIABLES
    f,            \* the Field handed to generate: its type and ConstraintGroup
    constraints,  \* the Vec<Constraint> returned by linearize
    rent,         \* TRUE iff generate emitted `let __anchor_rent = Rent::get()?`
    pc,           \* position of the compiler / of the emitted code
    idx,          \* index in constraints of the check being executed
    info,         \* the AccountInfo of the field's account
    payer,        \* lamports of the payer account
    env,          \* what the checks read besides info: other keys, content, rent
    cur,          \* locals of the emitted init block (space, owner, lamports)
    invocations,  \* the invocations issued in the current run, oldest first
    evaluated,    \* the kinds of the checks evaluated in the current run
    err,          \* the error the current run returned, or NoError
    run,          \* number of the current execution of the instruction
    accs,         \* the fields of the AccountsStruct given to the nodup pass
    no_dup,       \* the checks generate_constraints_no_dup emitted
    keys,         \* the key each declared account resolves to at run time
    others,       \* the other fields of the instruction, with their accounts
    ctx,          \* the CpiContext under construction or in use
    infos,        \* what to_account_infos returned for ctx
    metas,        \* what to_account_metas returned for ctx, with its argument
    accounts,     \* the account slice try_accounts consumes
    result        \* what the last try_accounts returned

vars == <<f, constraints, rent, pc, idx, info, payer, env, cur,
          invocations, evaluated, err, run, accs, no_dup, keys, others,
          ctx, infos, metas, accounts, result>>

\* what the duplicate-account pass works on
nodup_vars == <<accs, no_dup, keys>>

\* what the runtime library calls work on
lib_vars == <<ctx, infos, metas, accounts, result>>

(***************************************************************************)
(* Bounds of the model.                                                    *)
(***************************************************************************)
MaxList == 2        \* most has_one, literal and raw entries of one group
MaxRemaining == 2   \* most remaining accounts of a CpiContext
MaxAccounts == 3    \* longest account slice handed to try_accounts
MaxPopulated == 2   \* most optional slots populated at once (linearize inputs)
MaxRuns == 2        \* executions of the instruction on the same accounts

(***************************************************************************)
(* Keys.  Pubkeys are numbers; derived addresses live above PdaBase.       *)
(***************************************************************************)
SYSTEM_PROGRAM == 0     \* system_program::ID
PROGRAM_ID == 1         \* program_id, the executing program
TOKEN_PROGRAM == 2      \* token_program.key
OTHER_PROGRAM == 3      \* some other program
KEY_AUTHORITY == 10     \* key of the account named authority
KEY_MINT == 11          \* key of the account named mint
KEY_X == 12             \* some other key
KEY_T == 20             \* a key that is no derived address
PdaBase == 100
NoError == "NoError"

(***************************************************************************)
(* Constraint Model.                                                       *)
(***************************************************************************)
OptionalSlots ==
    {"init", "zeroed", "mutable", "dup", "signer", "owner", "rent_exempt",
     "seeds", "executable", "state", "close", "address", "associated_token"}

SeqsUpTo(S, n) == UNION {[1..k -> S] : k \in 0..n}

Some(x) == <<x>>
None == <<>>
IsSome(o) == Len(o) = 1
IsNone(o) == Len(o) = 0
Unwrap(o) == o[1]

\* no runtime library call is under way
NoCalls ==
    /\ ctx = None
    /\ infos = None
    /\ metas = None
    /\ accounts = <<>>
    /\ result = None

\* InitKind
KindProgram(owner) == [tag |-> "Program", owner |-> owner]
KindToken == [tag |-> "Token", owner |-> "authority", mint |-> "mint"]
KindMint ==
    [tag |-> "Mint", owner |-> "authority", decimals |-> 6,
     freeze_authority |-> None]
KindAssociatedToken ==
    [tag |-> "AssociatedToken", owner |-> "authority", mint |-> "mint"]

\* ConstraintInitGroup { if_needed, seeds, payer, space, kind }
InitGroup(if_needed, seeds, space, kind) ==
    [if_needed |-> if_needed, seeds |-> seeds, payer |-> "payer",
     space |-> space, kind |-> kind]

\* ConstraintSeedsGroup { is_init, seeds, bump }
SeedsGroup(is_init, seeds, bump) ==
    [is_init |-> is_init, seeds |-> seeds, bump |-> bump]

DefaultPayload(slot) ==
    CASE slot = "init" -> InitGroup(FALSE, None, Some(16), KindProgram(None))
      [] slot = "zeroed" -> [zeroed |-> TRUE]
      [] slot = "mutable" -> [error |-> None]
      [] slot = "dup" -> [target |-> "authority"]
      [] slot = "signer" -> [error |-> None]
      [] slot = "owner" -> [owner_address |-> PROGRAM_ID, error |-> None]
      [] slot = "rent_exempt" -> [mode |-> "Enforce"]
      [] slot = "seeds" -> SeedsGroup(FALSE, 1, None)
      [] slot = "executable" -> [executable |-> TRUE]
      [] slot = "state" -> [program_target |-> "authority"]
      [] slot = "close" -> [sol_dest |-> "authority"]
      [] slot = "address" -> [address |-> KEY_T, error |-> None]
      [] slot = "associated_token" -> [wallet |-> "authority", mint |-> "mint"]

Slot(S, slot) == IF slot \in S THEN Some(DefaultPayload(slot)) ELSE None

\* ConstraintGroup: one optional slot per kind and three lists.
Group(S, has_one, literal, raw) ==
    [init |-> Slot(S, "init"),
     zeroed |-> Slot(S, "zeroed"),
     mutable |-> Slot(S, "mutable"),
     dup |-> Slot(S, "dup"),
     signer |-> Slot(S, "signer"),
     has_one |-> has_one,
     literal |-> literal,
     raw |-> raw,
     owner |-> Slot(S, "owner"),
     rent_exempt |-> Slot(S, "rent_exempt"),
     seeds |-> Slot(S, "seeds"),
     executable |-> Slot(S, "executable"),
     state |-> Slot(S, "state"),
     close |-> Slot(S, "close"),
     address |-> Slot(S, "address"),
     associated_token |-> Slot(S, "associated_token")]

HasOnes == {[join_target |-> t, error |-> None] : t \in {"authority", "mint"}}
Literals == {[lit |-> e] : e \in {"e1", "e2"}}
Raws == {[raw |-> e, error |-> None] : e \in {"e1", "e2"}}

\* The three lists of a group, MaxList entries in all.
Lists ==
    {t \in SeqsUpTo(HasOnes, MaxList) \X SeqsUpTo(Literals, MaxList)
            \X SeqsUpTo(Raws, MaxList) :
        Len(t[1]) + Len(t[2]) + Len(t[3]) <= MaxList}

\* The constraint groups linearize is applied to.
LinGroups ==
    {Group(S, t[1], t[2], t[3]) :
        S \in {T \in SUBSET OptionalSlots : Cardinality(T) <= MaxPopulated},
        t \in Lists}

(***************************************************************************)
(* Linearizer.                                                             *)
(***************************************************************************)
\* `if let Some(c) = slot { constraints.push(Constraint::Kind(c)) }` and
\* `constraints.append(list.into_iter().map(Constraint::Kind))`
Tagged(kind, s) == [i \in 1..Len(s) |-> [kind |-> kind, c |-> s[i]]]

linearize_SeedsFirst(c_group) ==
    Tagged("Zeroed", c_group.zeroed)
    \o Tagged("Seeds", c_group.seeds)
    \o Tagged("Init", c_group.init)
    \o Tagged("AssociatedToken", c_group.associated_token)
    \o Tagged("Mut", c_group.mutable)
    \o Tagged("Signer", c_group.signer)
    \o Tagged("HasOne", c_group.has_one)
    \o Tagged("Dup", c_group.dup)
    \o Tagged("Literal", c_group.literal)
    \o Tagged("Raw", c_group.raw)
    \o Tagged("Owner", c_group.owner)
    \o Tagged("RentExempt", c_group.rent_exempt)
    \o Tagged("Executable", c_group.executable)
    \o Tagged("State", c_group.state)
    \o Tagged("Close", c_group.close)
    \o Tagged("Address", c_group.address)

linearize_HasOneFirst(c_group) ==
    Tagged("HasOne", c_group.has_one)
    \o Tagged("Zeroed", c_group.zeroed)
    \o Tagged("Init", c_group.init)
    \o Tagged("Seeds", c_group.seeds)
    \o Tagged("AssociatedToken", c_group.associated_token)
    \o Tagged("Mut", c_group.mutable)
    \o Tagged("Signer", c_group.signer)
    \o Tagged("Dup", c_group.dup)
    \o Tagged("Literal", c_group.literal)
    \o Tagged("Raw", c_group.raw)
    \o Tagged("Owner", c_group.owner)
    \o Tagged("RentExempt", c_group.rent_exempt)
    \o Tagged("Executable", c_group.executable)
    \o Tagged("State", c_group.state)
    \o Tagged("Close", c_group.close)
    \o Tagged("Address", c_group.address)

linearize_SignerBeforeMut(c_group) ==
    Tagged("Zeroed", c_group.zeroed)
    \o Tagged("Init", c_group.init)
    \o Tagged("Seeds", c_group.seeds)
    \o Tagged("AssociatedToken", c_group.associated_token)
    \o Tagged("Signer", c_group.signer)
    \o Tagged("Mut", c_group.mutable)
    \o Tagged("HasOne", c_group.has_one)
    \o Tagged("Dup", c_group.dup)
    \o Tagged("Literal", c_group.literal)
    \o Tagged("Raw", c_group.raw)
    \o Tagged("Owner", c_group.owner)
    \o Tagged("RentExempt", c_group.rent_exempt)
    \o Tagged("Executable", c_group.executable)
    \o Tagged("State", c_group.state)
    \o Tagged("Close", c_group.close)
    \o Tagged("Address", c_group.address)

linearize_SeedsFront(c_group) ==
    Tagged("Seeds", c_group.seeds)
    \o Tagged("Zeroed", c_group.zeroed)
    \o Tagged("Init", c_group.init)
    \o Tagged("AssociatedToken", c_group.associated_token)
    \o Tagged("Mut", c_group.mutable)
    \o Tagged("Signer", c_group.signer)
    \o Tagged("HasOne", c_group.has_one)
    \o Tagged("Dup", c_group.dup)
    \o Tagged("Literal", c_group.literal)
    \o Tagged("Raw", c_group.raw)
    \o Tagged("Owner", c_group.owner)
    \o Tagged("RentExempt", c_group.rent_exempt)
    \o Tagged("Executable", c_group.executable)
    \o Tagged("State", c_group.state)
    \o Tagged("Close", c_group.close)
    \o Tagged("Address", c_group.address)

linearize_NoDupTwiceRaw(c_group) ==
    Tagged("Zeroed", c_group.zeroed)
    \o Tagged("Init", c_group.init)
    \o Tagged("Seeds", c_group.seeds)
    \o Tagged("AssociatedToken", c_group.associated_token)
    \o Tagged("Mut", c_group.mutable)
    \o Tagged("Signer", c_group.signer)
    \o Tagged("HasOne", c_group.has_one)
    \o Tagged("Literal", c_group.literal)
    \o Tagged("Raw", c_group.raw)
    \o Tagged("Raw", c_group.raw)
    \o Tagged("Owner", c_group.owner)
    \o Tagged("RentExempt", c_group.rent_exempt)
    \o Tagged("Executable", c_group.executable)
    \o Tagged("State", c_group.state)
    \o Tagged("Close", c_group.close)
    \o Tagged("Address", c_group.address)

linearize(c_group) ==
    Tagged("Zeroed", c_group.zeroed)
    \o Tagged("Init", c_group.init)
    \o Tagged("Seeds", c_group.seeds)
    \o Tagged("AssociatedToken", c_group.associated_token)
    \o Tagged("Mut", c_group.mutable)
    \o Tagged("Signer", c_group.signer)
    \o Tagged("HasOne", c_group.has_one)
    \o Tagged("Dup", c_group.dup)
    \o Tagged("Literal", c_group.literal)
    \o Tagged("Raw", c_group.raw)
    \o Tagged("Owner", c_group.owner)
    \o Tagged("RentExempt", c_group.rent_exempt)
    \o Tagged("Executable", c_group.executable)
    \o Tagged("State", c_group.state)
    \o Tagged("Close", c_group.close)
    \o Tagged("Address", c_group.address)

(***************************************************************************)
(* Primitives the emitted code consumes.                                   *)
(***************************************************************************)
MaxBump == 3        \* largest bump seed tried by find_program_address
TokenAccountLEN == 165
MintLEN == 82

\* Whether the hash of (seeds, bump, program_id) is off the curve.
OffCurve(s, b) == (s + b) % 3 # 1
PdaAddress(s, b) == PdaBase + (s * 10) + b

\* Pubkey::create_program_address(&[seeds.., &[bump]], program_id)
create_program_address(s, b) ==
    IF OffCurve(s, b) THEN Some(PdaAddress(s, b)) ELSE None

\* Pubkey::find_program_address(&[seeds..], program_id): the first bump,
\* counting down from the largest, whose address is off the curve.
find_program_address(s) ==
    LET b == CHOOSE x \in 0..MaxBump :
                 /\ OffCurve(s, x)
                 /\ \A y \in (x + 1)..MaxBump : ~OffCurve(s, y)
    IN <<PdaAddress(s, b), b>>

\* __anchor_rent.minimum_balance(space)
minimum_balance(space) == env.rate * space

\* __anchor_rent.is_exempt(lamports, data_len)
is_exempt(lamports, data_len) == lamports >= minimum_balance(data_len)

Max(a, b) == IF a >= b THEN a ELSE b
Min(a, b) == IF a <= b THEN a ELSE b
saturating_sub(a, b) == IF a >= b THEN a - b ELSE 0

(***************************************************************************)
(* Constraint Emitter: the error a check returns in the current state,     *)
(* NoError when it passes.                                                 *)
(***************************************************************************)
generate_custom_error_AlwaysDefault(custom_error, error) == error

generate_custom_error(custom_error, error) ==
    IF IsSome(custom_error) THEN Unwrap(custom_error) ELSE error

\* `Pubkey::find_program_address` / `Pubkey::create_program_address`, then
\* the comparison with the key of the account
generate_constraint_seeds_IgnoresBump(c) ==
    IF info.key # find_program_address(c.seeds)[1] THEN "ConstraintSeeds"
    ELSE NoError

generate_constraint_seeds_NoCanonical(c) ==
    LET bump == IF IsSome(c.bump) THEN Unwrap(c.bump)
                ELSE find_program_address(c.seeds)[2]
        signer == create_program_address(c.seeds, bump)
    IN IF IsNone(signer) THEN "ConstraintSeeds"
       ELSE IF info.key # Unwrap(signer) THEN "ConstraintSeeds"
       ELSE NoError

generate_constraint_seeds_LowestBump(c) ==
    IF c.is_init /\ IsSome(c.bump)
    THEN LET found == find_program_address(c.seeds) IN
         IF info.key # found[1] THEN "ConstraintSeeds"
         ELSE IF found[2] # Unwrap(c.bump) THEN "ConstraintSeeds"
         ELSE NoError
    ELSE LET bump == IF IsSome(c.bump) THEN Unwrap(c.bump) ELSE 0
             signer == create_program_address(c.seeds, bump)
         IN IF IsNone(signer) THEN "ConstraintSeeds"
            ELSE IF info.key # Unwrap(signer) THEN "ConstraintSeeds"
            ELSE NoError

generate_constraint_seeds(c) ==
    IF c.is_init /\ IsSome(c.bump)
    THEN LET found == find_program_address(c.seeds) IN
         IF info.key # found[1] THEN "ConstraintSeeds"
         ELSE IF found[2] # Unwrap(c.bump) THEN "ConstraintSeeds"
         ELSE NoError
    ELSE LET bump == IF IsSome(c.bump) THEN Unwrap(c.bump)
                     ELSE find_program_address(c.seeds)[2]
             signer == create_program_address(c.seeds, bump)
         IN IF IsNone(signer) THEN "ConstraintSeeds"
            ELSE IF info.key # Unwrap(signer) THEN "ConstraintSeeds"
            ELSE NoError

generate_constraint_rent_exempt_Strict(c) ==
    IF c.mode = "Skip" THEN NoError
    ELSE IF info.lamports <= minimum_balance(info.data_len)
         THEN "ConstraintRentExempt"
         ELSE NoError

generate_constraint_rent_exempt(c) ==
    IF c.mode = "Skip" THEN NoError
    ELSE IF ~is_exempt(info.lamports, info.data_len)
         THEN "ConstraintRentExempt"
         ELSE NoError

\* `#ident.load()?.#target` for Loader and AccountLoader, `#ident.#target`
\* otherwise, compared with `#target.to_account_info().key`
generate_constraint_has_one_TargetFirstOnly(c) ==
    IF f.ty \in {"Loader", "AccountLoader"} /\ ~env.loadable THEN "LoadError"
    ELSE IF env.target_first
            /\ env.data[c.join_target] # env.keys[c.join_target]
    THEN generate_custom_error(c.error, "ConstraintHasOne")
    ELSE NoError

generate_constraint_has_one(c) ==
    IF f.ty \in {"Loader", "AccountLoader"} /\ ~env.loadable THEN "LoadError"
    ELSE IF env.data[c.join_target] # env.keys[c.join_target]
    THEN generate_custom_error(c.error, "ConstraintHasOne")
    ELSE NoError

\* u64::from_le_bytes: the value of 8 bytes, least significant first, as
\* four 16-bit limbs, least significant first
from_le_bytes(bytes) ==
    [i \in 1..4 |-> bytes[(2 * i) - 1] + (256 * bytes[2 * i])]

\* the buffer of an account all of whose bytes are zero, up to its header
zero_filled(len) == [i \in 1..Min(8, len) |-> 0]

\* `__data[..8]` panics on a buffer of less than 8 bytes; the discriminator
\* is then compared with 0
generate_constraint_zeroed_FirstByte(c) ==
    IF Len(info.data) < 8 THEN "Panic"
    ELSE IF info.data[1] # 0 THEN "ConstraintZero"
    ELSE NoError

generate_constraint_zeroed(c) ==
    IF Len(info.data) < 8 THEN "Panic"
    ELSE IF from_le_bytes(SubSeq(info.data, 1, 8)) # <<0, 0, 0, 0>>
    THEN "ConstraintZero"
    ELSE NoError

\* `if field.key == target.key { return Err(ConstraintClose) }`
generate_constraint_close_UnlessSame(c) ==
    IF info.key # env.keys[c.sol_dest] THEN "ConstraintClose" ELSE NoError

generate_constraint_close(c) ==
    IF info.key = env.keys[c.sol_dest] THEN "ConstraintClose" ELSE NoError

generate_constraint(k) ==
    LET c == k.c IN
    CASE k.kind = "Zeroed" -> generate_constraint_zeroed(c)
      [] k.kind = "Mut" ->
            IF ~info.is_writable
            THEN generate_custom_error(c.error, "ConstraintMut") ELSE NoError
      [] k.kind = "HasOne" -> generate_constraint_has_one(c)
      [] k.kind = "Signer" ->
            IF ~info.is_signer
            THEN generate_custom_error(c.error, "ConstraintSigner") ELSE NoError
      [] k.kind = "Literal" ->
            IF ~env.exprs[c.lit] THEN "Deprecated" ELSE NoError
      [] k.kind = "Raw" ->
            IF ~env.exprs[c.raw]
            THEN generate_custom_error(c.error, "ConstraintRaw") ELSE NoError
      [] k.kind = "Owner" ->
            IF info.owner # c.owner_address
            THEN generate_custom_error(c.error, "ConstraintOwner") ELSE NoError
      [] k.kind = "RentExempt" -> generate_constraint_rent_exempt(c)
      [] k.kind = "Seeds" -> generate_constraint_seeds(c)
      [] k.kind = "Executable" ->
            IF ~info.executable THEN "ConstraintExecutable" ELSE NoError
      [] k.kind = "State" ->
            IF info.key # env.state_address THEN "ConstraintState"
            ELSE IF info.owner # env.keys[c.program_target]
                 THEN "ConstraintState" ELSE NoError
      [] k.kind = "Close" -> generate_constraint_close(c)
      [] k.kind = "Address" ->
            IF info.key # c.address
            THEN generate_custom_error(c.error, "ConstraintAddress")
            ELSE NoError
      [] k.kind = "AssociatedToken" ->
            IF info.key # env.associated_token_address
            THEN "ConstraintAssociated" ELSE NoError
      [] k.kind = "Dup" -> NoError

(***************************************************************************)
(* generate: linearize the group, bind the rent handle when a rent_exempt  *)
(* check in mode Enforce is present, emit one check per constraint.        *)
(***************************************************************************)
SignerTys ==
    {"AccountInfo", "ProgramAccount", "Account", "Loader", "AccountLoader",
     "CpiAccount"}

\* generate_constraint_signer and generate_constraint_state panic on a
\* field type they do not accept.
Panics(cs) ==
    \E i \in 1..Len(cs) :
        \/ cs[i].kind = "Signer" /\ f.ty \notin SignerTys
        \/ cs[i].kind = "State" /\ f.ty # "CpiState"

\* The emitted account creation names __anchor_rent.
UsesRent(cs) ==
    \E i \in 1..Len(cs) :
        cs[i].kind = "Init" /\ cs[i].c.kind.tag \in {"Program", "Token", "Mint"}

RentBinding(cs) ==
    \E i \in 1..Len(cs) :
        cs[i] = [kind |-> "RentExempt", c |-> [mode |-> "Enforce"]]

\* pc' is "check" when the emitted sequence builds, "panic" when a
\* generator panicked, "rejected" when the emitted code names a rent
\* handle that generate did not bind.
generate ==
    /\ pc = "generate"
    /\ constraints' = linearize(f.constraints)
    /\ rent' = RentBinding(constraints')
    /\ pc' = IF Panics(constraints') THEN "panic"
             ELSE IF UsesRent(constraints') /\ ~rent' THEN "rejected"
             ELSE "check"
    /\ idx' = 1
    /\ UNCHANGED <<f, info, payer, env, cur, invocations, evaluated, err, run>>
    /\ UNCHANGED <<nodup_vars, others, lib_vars>>

(***************************************************************************)
(* The emitted sequence at run time.                                       *)
(***************************************************************************)
\* `return Err(e)`
ReturnErr_FallThrough(e) ==
    /\ err' = e
    /\ pc' = "check"
    /\ idx' = idx + 1

ReturnErr(e) ==
    /\ err' = e
    /\ pc' = "returned"
    /\ UNCHANGED idx

\* control reaches the next emitted check
NextCheck ==
    /\ pc' = "check"
    /\ idx' = idx + 1
    /\ UNCHANGED err

Goto(next) ==
    IF next = "check" THEN NextCheck
    ELSE pc' = next /\ UNCHANGED <<idx, err>>

AtCheck == pc = "check" /\ idx <= Len(constraints)

\* One emitted check other than init.
check_Drains ==
    /\ AtCheck
    /\ constraints[idx].kind # "Init"
    /\ evaluated' = Append(evaluated, constraints[idx].kind)
    /\ LET e == generate_constraint(constraints[idx]) IN
       IF e # NoError THEN ReturnErr(e) ELSE NextCheck
    /\ info' = [info EXCEPT !.lamports = 0]
    /\ UNCHANGED <<f, constraints, rent, payer, env, cur, invocations, run>>
    /\ UNCHANGED <<nodup_vars, others, lib_vars>>

check ==
    /\ AtCheck
    /\ constraints[idx].kind # "Init"
    /\ evaluated' = Append(evaluated, constraints[idx].kind)
    /\ LET e == generate_constraint(constraints[idx]) IN
       IF e # NoError THEN ReturnErr(e) ELSE NextCheck
    /\ UNCHANGED <<f, constraints, rent, info, payer, env, cur, invocations,
                   run>>
    /\ UNCHANGED <<nodup_vars, others, lib_vars>>

\* The end of the emitted sequence: the accounts are handed to the handler.
ok ==
    /\ pc = "check"
    /\ idx > Len(constraints)
    /\ pc' = "returned"
    /\ UNCHANGED <<f, constraints, rent, idx, info, payer, env, cur,
                   invocations, evaluated, err, run>>
    /\ UNCHANGED <<nodup_vars, others, lib_vars>>

(***************************************************************************)
(* Initializer Strategies.                                                 *)
(***************************************************************************)
\* `!if_needed || field.owner == &system_program::ID`
NeedsCreation_OnlyIfSystemOwned(if_needed, owner) == owner = SYSTEM_PROGRAM

NeedsCreation(if_needed, owner) == ~if_needed \/ owner = SYSTEM_PROGRAM

\* `let space = ...` of InitKind::Program
ProgramSpace_IgnoresExplicit(c) ==
    IF f.ty \in {"Loader", "AccountLoader"}
    THEN 8 + f.account_ty.pod_len
    ELSE 8 + f.account_ty.default_len

ProgramSpace(c) ==
    IF IsSome(c.space) THEN Unwrap(c.space)
    ELSE IF f.ty \in {"Loader", "AccountLoader"}
         THEN 8 + f.account_ty.pod_len
         ELSE 8 + f.account_ty.default_len

\* the space argument of generate_create_account
CreateSpace_ExplicitFirst(c) ==
    IF IsSome(c.space) THEN Unwrap(c.space)
    ELSE CASE c.kind.tag = "Token" -> TokenAccountLEN
           [] c.kind.tag = "Mint" -> MintLEN
           [] c.kind.tag = "Program" -> ProgramSpace(c)

CreateSpace(c) ==
    CASE c.kind.tag = "Token" -> TokenAccountLEN
      [] c.kind.tag = "Mint" -> MintLEN
      [] c.kind.tag = "Program" -> ProgramSpace(c)

\* the owner argument of generate_create_account
CreateOwner_AlwaysProgramId(c) == PROGRAM_ID

CreateOwner(c) ==
    CASE c.kind.tag \in {"Token", "Mint"} -> TOKEN_PROGRAM
      [] c.kind.tag = "Program" ->
            IF IsSome(c.kind.owner) THEN Unwrap(c.kind.owner) ELSE PROGRAM_ID

\* seeds_with_nonce of generate_constraint_init_group
seeds_with_nonce_AlwaysCanonical(c) ==
    IF IsNone(c.seeds) THEN None
    ELSE Some([seeds |-> Unwrap(c.seeds).seeds,
               bump |-> find_program_address(Unwrap(c.seeds).seeds)[2]])

seeds_with_nonce(c) ==
    IF IsNone(c.seeds) THEN None
    ELSE LET s == Unwrap(c.seeds) IN
         Some([seeds |-> s.seeds,
               bump |-> IF IsSome(s.bump) THEN Unwrap(s.bump)
                        ELSE find_program_address(s.seeds)[2]])

\* `minimum_balance(space).max(1).saturating_sub(__current_lamports)`
required_lamports_FullMinimum(space, current_lamports) ==
    Max(minimum_balance(space), 1)

required_lamports_NoShortfall(space, current_lamports) == 0

required_lamports(space, current_lamports) ==
    saturating_sub(Max(minimum_balance(space), 1), current_lamports)

\* The init check up to its first invocation.
init_SkipReturns ==
    /\ AtCheck
    /\ constraints[idx].kind = "Init"
    /\ evaluated' = Append(evaluated, "Init")
    /\ LET c == constraints[idx].c IN
       IF NeedsCreation(c.if_needed, info.owner)
       THEN IF c.kind.tag = "AssociatedToken"
            THEN /\ pc' = "create_associated"
                 /\ UNCHANGED <<idx, err, cur>>
            ELSE /\ cur' = [space |-> CreateSpace(c),
                            owner |-> CreateOwner(c),
                            seeds |-> seeds_with_nonce(c),
                            current_lamports |-> info.lamports]
                 /\ pc' = IF info.lamports = 0 THEN "create_account"
                          ELSE IF required_lamports(CreateSpace(c),
                                                    info.lamports) > 0
                               THEN "transfer"
                               ELSE "allocate"
                 /\ UNCHANGED <<idx, err>>
       ELSE pc' = "returned" /\ UNCHANGED <<idx, err, cur>>
    /\ UNCHANGED <<f, constraints, rent, info, payer, env, invocations, run>>
    /\ UNCHANGED <<nodup_vars, others, lib_vars>>

init_AlwaysTransfer ==
    /\ AtCheck
    /\ constraints[idx].kind = "Init"
    /\ evaluated' = Append(evaluated, "Init")
    /\ LET c == constraints[idx].c IN
       IF NeedsCreation(c.if_needed, info.owner)
       THEN IF c.kind.tag = "AssociatedToken"
            THEN /\ pc' = "create_associated"
                 /\ UNCHANGED <<idx, err, cur>>
            ELSE /\ cur' = [space |-> CreateSpace(c),
                            owner |-> CreateOwner(c),
                            seeds |-> seeds_with_nonce(c),
                            current_lamports |-> info.lamports]
                 /\ pc' = IF info.lamports = 0 THEN "create_account"
                          ELSE "transfer"
                 /\ UNCHANGED <<idx, err>>
       ELSE NextCheck /\ UNCHANGED cur
    /\ UNCHANGED <<f, constraints, rent, info, payer, env, invocations, run>>
    /\ UNCHANGED <<nodup_vars, others, lib_vars>>

init ==
    /\ AtCheck
    /\ constraints[idx].kind = "Init"
    /\ evaluated' = Append(evaluated, "Init")
    /\ LET c == constraints[idx].c IN
       IF NeedsCreation(c.if_needed, info.owner)
       THEN IF c.kind.tag = "AssociatedToken"
            THEN /\ pc' = "create_associated"
                 /\ UNCHANGED <<idx, err, cur>>
            ELSE /\ cur' = [space |-> CreateSpace(c),
                            owner |-> CreateOwner(c),
                            seeds |-> seeds_with_nonce(c),
                            current_lamports |-> info.lamports]
                 /\ pc' = IF info.lamports = 0 THEN "create_account"
                          ELSE IF required_lamports(CreateSpace(c),
                                                    info.lamports) > 0
                               THEN "transfer"
                               ELSE "allocate"
                 /\ UNCHANGED <<idx, err>>
       ELSE NextCheck /\ UNCHANGED cur
    /\ UNCHANGED <<f, constraints, rent, info, payer, env, invocations, run>>
    /\ UNCHANGED <<nodup_vars, others, lib_vars>>

\* What follows the Account Creator in the init block of each kind.
AfterCreate_NoSetup == "check"

AfterCreate ==
    CASE constraints[idx].c.kind.tag = "Token" -> "initialize_account"
      [] constraints[idx].c.kind.tag = "Mint" -> "initialize_mint"
      [] constraints[idx].c.kind.tag = "Program" -> "check"

Invocation(program, op, args, signed, signer_seeds, succeeded) ==
    [program |-> program, op |-> op, args |-> args, signed |-> signed,
     signer_seeds |-> signer_seeds, ok |-> succeeded]

\* `invoke(..)?` / `invoke_signed(..)?`: the invocation is issued; when it
\* succeeds its effect is applied and control goes on, when it fails its
\* error is returned.
Invoke_IgnoreFailure(inv, info2, payer2, next) ==
    /\ invocations' = Append(invocations, inv)
    /\ IF inv.ok
       THEN info' = info2 /\ payer' = payer2 /\ Goto(next)
       ELSE /\ err' = "InvokeError"
            /\ (IF next = "check" THEN pc' = "check" /\ idx' = idx + 1
                ELSE pc' = next /\ UNCHANGED idx)
            /\ UNCHANGED <<info, payer>>
    /\ UNCHANGED <<f, constraints, rent, env, cur, evaluated, run>>
    /\ UNCHANGED <<nodup_vars, others, lib_vars>>

Invoke(inv, info2, payer2, next) ==
    /\ invocations' = Append(invocations, inv)
    /\ IF inv.ok
       THEN info' = info2 /\ payer' = payer2 /\ Goto(next)
       ELSE ReturnErr("InvokeError") /\ UNCHANGED <<info, payer>>
    /\ UNCHANGED <<f, constraints, rent, env, cur, evaluated, run>>
    /\ UNCHANGED <<nodup_vars, others, lib_vars>>

(***************************************************************************)
(* Account Creator.                                                        *)
(***************************************************************************)
create_account ==
    /\ pc = "create_account"
    /\ \E succeeded \in BOOLEAN :
        LET lamports == minimum_balance(cur.space) IN
        /\ succeeded => payer >= lamports
        /\ Invoke(Invocation("system", "create_account",
                             [from |-> "payer", to |-> f.ident,
                              lamports |-> lamports, space |-> cur.space,
                              owner |-> cur.owner],
                             TRUE, cur.seeds, succeeded),
                  [info EXCEPT !.lamports = lamports, !.data_len = cur.space,
                               !.data = zero_filled(cur.space),
                               !.owner = cur.owner],
                  payer - lamports,
                  AfterCreate)

transfer_Signed ==
    /\ pc = "transfer"
    /\ \E succeeded \in BOOLEAN :
        LET lamports == required_lamports(cur.space, cur.current_lamports) IN
        /\ succeeded => payer >= lamports
        /\ Invoke(Invocation("system", "transfer",
                             [from |-> "payer", to |-> f.ident,
                              lamports |-> lamports],
                             TRUE, cur.seeds, succeeded),
                  [info EXCEPT !.lamports = info.lamports + lamports],
                  payer - lamports,
                  "allocate")

transfer ==
    /\ pc = "transfer"
    /\ \E succeeded \in BOOLEAN :
        LET lamports == required_lamports(cur.space, cur.current_lamports) IN
        /\ succeeded => payer >= lamports
        /\ Invoke(Invocation("system", "transfer",
                             [from |-> "payer", to |-> f.ident,
                              lamports |-> lamports],
                             FALSE, None, succeeded),
                  [info EXCEPT !.lamports = info.lamports + lamports],
                  payer - lamports,
                  "allocate")

allocate ==
    /\ pc = "allocate"
    /\ \E succeeded \in BOOLEAN :
        Invoke(Invocation("system", "allocate",
                          [to |-> f.ident, space |-> cur.space],
                          TRUE, cur.seeds, succeeded),
               [info EXCEPT !.data_len = cur.space,
                               !.data = zero_filled(cur.space)],
               payer,
               "assign")

assign_ToFirstField ==
    /\ pc = "assign"
    /\ \E succeeded \in BOOLEAN :
        Invoke(Invocation("system", "assign",
                          [to |-> "target", owner |-> cur.owner],
                          TRUE, cur.seeds, succeeded),
               [info EXCEPT !.owner = cur.owner],
               payer,
               AfterCreate)

assign ==
    /\ pc = "assign"
    /\ \E succeeded \in BOOLEAN :
        Invoke(Invocation("system", "assign",
                          [to |-> f.ident, owner |-> cur.owner],
                          TRUE, cur.seeds, succeeded),
               [info EXCEPT !.owner = cur.owner],
               payer,
               AfterCreate)

(***************************************************************************)
(* Kind-specific setup calls.                                              *)
(***************************************************************************)
initialize_account ==
    /\ pc = "initialize_account"
    /\ \E succeeded \in BOOLEAN :
        Invoke(Invocation("token", "initialize_account",
                          [account |-> f.ident,
                           mint |-> constraints[idx].c.kind.mint,
                           authority |-> constraints[idx].c.kind.owner],
                          FALSE, None, succeeded),
               info, payer, "check")

initialize_mint ==
    /\ pc = "initialize_mint"
    /\ \E succeeded \in BOOLEAN :
        Invoke(Invocation("token", "initialize_mint",
                          [mint |-> f.ident,
                           decimals |-> constraints[idx].c.kind.decimals,
                           authority |-> constraints[idx].c.kind.owner,
                           freeze_authority |->
                               constraints[idx].c.kind.freeze_authority],
                          FALSE, None, succeeded),
               info, payer, "check")

\* anchor_spl::associated_token::create: the associated token program
\* creates and initializes the account, funded by the payer.
create_associated_AsCreateAccount ==
    /\ pc = "create_associated"
    /\ \E succeeded \in BOOLEAN :
        LET lamports == saturating_sub(minimum_balance(TokenAccountLEN),
                                       info.lamports) IN
        /\ succeeded => payer >= lamports
        /\ Invoke(Invocation("system", "create_account",
                             [from |-> "payer", to |-> f.ident,
                              lamports |-> lamports,
                              space |-> TokenAccountLEN,
                              owner |-> TOKEN_PROGRAM],
                             TRUE, None, succeeded),
                  [info EXCEPT !.lamports = info.lamports + lamports,
                               !.data_len = TokenAccountLEN,
                               !.data = zero_filled(TokenAccountLEN),
                               !.owner = TOKEN_PROGRAM],
                  payer - lamports,
                  "check")

create_associated ==
    /\ pc = "create_associated"
    /\ \E succeeded \in BOOLEAN :
        LET lamports == saturating_sub(minimum_balance(TokenAccountLEN),
                                       info.lamports) IN
        /\ succeeded => payer >= lamports
        /\ Invoke(Invocation("associated_token", "create",
                             [payer |-> "payer", associated_token |-> f.ident,
                              authority |-> constraints[idx].c.kind.owner,
                              mint |-> constraints[idx].c.kind.mint],
                             FALSE, None, succeeded),
                  [info EXCEPT !.lamports = info.lamports + lamports,
                               !.data_len = TokenAccountLEN,
                               !.data = zero_filled(TokenAccountLEN),
                               !.owner = TOKEN_PROGRAM],
                  payer - lamports,
                  "check")

\* The instruction is executed again on the accounts the previous,
\* successful execution left.
reinvoke ==
    /\ pc = "returned"
    /\ err = NoError
    /\ run < MaxRuns
    /\ run' = run + 1
    /\ pc' = "check"
    /\ idx' = 1
    /\ invocations' = <<>>
    /\ evaluated' = <<>>
    /\ UNCHANGED <<f, constraints, rent, info, payer, env, cur, err>>
    /\ UNCHANGED <<nodup_vars, others, lib_vars>>

(***************************************************************************)
(* Initial states.                                                         *)
(***************************************************************************)
Field(ty, c_group) ==
    [ident |-> "target", ty |-> ty,
     account_ty |-> [default_len |-> 4, pod_len |-> 8],
     constraints |-> c_group]

AccountInfo(key, lamports, owner, discriminator) ==
    [key |-> key, lamports |-> lamports, owner |-> owner,
     data_len |-> IF owner = SYSTEM_PROGRAM THEN 0 ELSE 16,
     data |-> IF owner = SYSTEM_PROGRAM THEN <<>>
              ELSE [i \in 1..8 |-> IF i = 1 THEN discriminator ELSE 0],
     is_writable |-> TRUE, is_signer |-> TRUE, executable |-> FALSE]

Env(rate, authority) ==
    [rate |-> rate,
     keys |-> [authority |-> KEY_AUTHORITY, mint |-> KEY_MINT],
     data |-> [authority |-> authority, mint |-> KEY_MINT],
     exprs |-> [e1 |-> TRUE, e2 |-> TRUE],
     loadable |-> TRUE,
     target_first |-> TRUE,
     state_address |-> KEY_T,
     associated_token_address |-> KEY_T]

NoLocals == [space |-> 0, owner |-> 0, seeds |-> None, current_lamports |-> 0]

Idle ==
    /\ constraints = <<>>
    /\ rent = FALSE
    /\ pc = "generate"
    /\ idx = 1
    /\ cur = NoLocals
    /\ invocations = <<>>
    /\ evaluated = <<>>
    /\ err = NoError
    /\ run = 1
    /\ accs = <<>>
    /\ no_dup = <<>>
    /\ keys = <<>>
    /\ others = <<>>
    /\ NoCalls

\* linearize applied to every group of LinGroups.
InitLin ==
    /\ f \in {Field(IF IsSome(g.state) THEN "CpiState" ELSE "Account", g) :
                g \in LinGroups}
    /\ info = AccountInfo(KEY_T, 0, SYSTEM_PROGRAM, 0)
    /\ payer = 1000
    /\ env = Env(1, KEY_AUTHORITY)
    /\ Idle

NextLin == generate

SpecLin == InitLin /\ [][NextLin]_vars

\* Fields with an init constraint, alone or with zeroed, seeds, has_one and
\* rent_exempt.
RunInits ==
    {InitGroup(n, None, s, KindProgram(o)) :
        n \in BOOLEAN, s \in {None, Some(16)},
        o \in {None, Some(OTHER_PROGRAM), Some(SYSTEM_PROGRAM)}}
    \cup {InitGroup(n, None, None, k) :
            n \in BOOLEAN, k \in {KindToken, KindMint, KindAssociatedToken}}

RunGroup(i, zeroed, seeded, has_one, rent_exempt) ==
    LET sg == SeedsGroup(TRUE, 1, None) IN
    [Group({}, has_one, <<>>, <<>>) EXCEPT
        !.init = Some([i EXCEPT !.seeds = IF seeded THEN Some(sg) ELSE None]),
        !.zeroed = IF zeroed THEN Some(DefaultPayload("zeroed")) ELSE None,
        !.seeds = IF seeded THEN Some(sg) ELSE None,
        !.rent_exempt = rent_exempt]

RunGroups ==
    {RunGroup(i, z, sd, h, r) :
        i \in RunInits, z \in BOOLEAN, sd \in BOOLEAN,
        h \in SeqsUpTo({[join_target |-> "authority", error |-> None]}, 1),
        r \in {None, Some([mode |-> "Enforce"]), Some([mode |-> "Skip"])}}

Init ==
    /\ f \in {Field("Account", g) : g \in RunGroups}
    /\ \E key \in IF IsSome(f.constraints.seeds)
                  THEN {find_program_address(1)[1], KEY_T} ELSE {KEY_T},
          lamports \in {0, 1, 16, 200},
          owner \in {SYSTEM_PROGRAM, PROGRAM_ID, OTHER_PROGRAM},
          d \in IF IsSome(f.constraints.zeroed) THEN {0, 1} ELSE {0} :
            info = AccountInfo(key, lamports, owner, d)
    /\ payer \in {5, 1000}
    /\ \E rate \in {0, 1},
          authority \in IF Len(f.constraints.has_one) > 0
                        THEN {KEY_AUTHORITY, KEY_X} ELSE {KEY_AUTHORITY} :
            env = Env(rate, authority)
    /\ Idle

Next ==
    \/ generate
    \/ check
    \/ init
    \/ create_account
    \/ transfer
    \/ allocate
    \/ assign
    \/ initialize_account
    \/ initialize_mint
    \/ create_associated
    \/ ok
    \/ reinvoke

Spec == Init /\ [][Next]_vars

(***************************************************************************)
(* Fields without init: up to MaxPopulated optional checks and at most one *)
(* has_one, literal and raw, each check with or without a custom error,    *)
(* run on accounts that pass or fail each populated check.                 *)
(***************************************************************************)
CheckSlots == OptionalSlots \ {"init"}
CustomSlots == {"mutable", "signer", "owner", "address"}

WithError(o, custom) ==
    IF IsSome(o) /\ custom
    THEN Some([Unwrap(o) EXCEPT !.error = Some("CustomError")]) ELSE o

CheckGroup(S, C, has_one, literal, raw) ==
    LET g == Group(S, has_one, literal, raw) IN
    [g EXCEPT !.mutable = WithError(g.mutable, "mutable" \in C),
              !.signer = WithError(g.signer, "signer" \in C),
              !.owner = WithError(g.owner, "owner" \in C),
              !.address = WithError(g.address, "address" \in C)]

CheckGroups ==
    {CheckGroup(S, C, h, l, r) :
        S \in {T \in SUBSET CheckSlots : Cardinality(T) <= MaxPopulated},
        C \in SUBSET CustomSlots,
        h \in SeqsUpTo({[join_target |-> "authority", error |-> e] :
                            e \in {None, Some("CustomError")}}, 1),
        l \in SeqsUpTo({[lit |-> "e1"]}, 1),
        r \in SeqsUpTo({[raw |-> "e2", error |-> e] :
                            e \in {None, Some("CustomError")}}, 1)}

Choice(relevant, S) == IF relevant THEN S ELSE {CHOOSE x \in S : TRUE}

InitChecks ==
    /\ \E g \in CheckGroups :
        f = Field(IF IsSome(g.state) THEN "CpiState" ELSE "Account", g)
    /\ LET g == f.constraints IN
       /\ \E key \in Choice(IsSome(g.seeds) \/ IsSome(g.address)
                            \/ IsSome(g.state) \/ IsSome(g.close)
                            \/ IsSome(g.associated_token),
                            {KEY_T, KEY_AUTHORITY, find_program_address(1)[1]}),
             lamports \in Choice(IsSome(g.rent_exempt), {200, 0}),
             owner \in Choice(IsSome(g.owner) \/ IsSome(g.state),
                              {PROGRAM_ID, OTHER_PROGRAM, KEY_AUTHORITY}),
             d \in Choice(IsSome(g.zeroed), {0, 1}),
             w \in Choice(IsSome(g.mutable), {TRUE, FALSE}),
             s \in Choice(IsSome(g.signer), {TRUE, FALSE}),
             x \in Choice(IsSome(g.executable), {TRUE, FALSE}) :
            info = [AccountInfo(key, lamports, owner, d) EXCEPT
                        !.is_writable = w, !.is_signer = s, !.executable = x]
       /\ \E authority \in Choice(Len(g.has_one) > 0, {KEY_AUTHORITY, KEY_X}),
             e1 \in Choice(Len(g.literal) > 0, {TRUE, FALSE}),
             e2 \in Choice(Len(g.raw) > 0, {TRUE, FALSE}) :
            env = [Env(1, authority) EXCEPT !.exprs = [e1 |-> e1, e2 |-> e2]]
    /\ payer = 1000
    /\ Idle

NextChecks ==
    \/ generate
    \/ check
    \/ ok

SpecChecks == InitChecks /\ [][NextChecks]_vars

(***************************************************************************)
(* Seeded fields: a seeds constraint with the canonical or an explicit     *)
(* bump, alone or next to an init of each kind, on accounts whose key is   *)
(* one of the addresses the seeds give or some other key.                  *)
(***************************************************************************)
\* `seeds = []`: the seed list without elements
EmptySeeds == 0
SeedValues == {EmptySeeds, 1, 2}
Bumps == {None} \cup {Some(b) : b \in 0..MaxBump}

SeedInits ==
    {InitGroup(n, None, Some(16), k) :
        n \in BOOLEAN,
        k \in {KindProgram(None), KindToken, KindMint, KindAssociatedToken}}

SeedGroups ==
    {[Group({"rent_exempt"}, <<>>, <<>>, <<>>) EXCEPT
        !.init = Some([i EXCEPT !.seeds = Some(SeedsGroup(TRUE, s, b))]),
        !.seeds = Some(SeedsGroup(TRUE, s, b))] :
        i \in SeedInits, s \in SeedValues, b \in Bumps}
    \cup {[Group({}, <<>>, <<>>, <<>>) EXCEPT
                !.seeds = Some(SeedsGroup(FALSE, s, b))] :
            s \in SeedValues, b \in Bumps}

InitSeeds ==
    /\ f \in {Field("Account", g) : g \in SeedGroups}
    /\ \E key \in {PdaAddress(Unwrap(f.constraints.seeds).seeds, b) :
                        b \in 0..MaxBump} \cup {KEY_T},
          lamports \in {0, 1, 200},
          owner \in {SYSTEM_PROGRAM, PROGRAM_ID} :
            info = AccountInfo(key, lamports, owner, 0)
    /\ payer = 1000
    /\ env = Env(1, KEY_AUTHORITY)
    /\ Idle

SpecSeeds == InitSeeds /\ [][Next]_vars

(***************************************************************************)
(* Sizes: an init of each kind with or without an explicit space, on a     *)
(* field of a serialized or of a zero-copy account type.                   *)
(***************************************************************************)
ExplicitSpace == 24

SpaceTys == {"Account", "Loader", "AccountLoader"}

SpaceInits ==
    {InitGroup(n, None, s, k) :
        n \in BOOLEAN, s \in {None, Some(ExplicitSpace)},
        k \in {KindProgram(None), KindToken, KindMint, KindAssociatedToken}}

SpaceGroups ==
    {[Group({"rent_exempt"}, <<>>, <<>>, <<>>) EXCEPT !.init = Some(i)] :
        i \in SpaceInits}

InitSpace ==
    /\ f \in {Field(ty, g) : ty \in SpaceTys, g \in SpaceGroups}
    /\ \E lamports \in {0, 1, 200} :
            info = AccountInfo(KEY_T, lamports, SYSTEM_PROGRAM, 0)
    /\ payer = 1000
    /\ env = Env(1, KEY_AUTHORITY)
    /\ Idle

SpecSpace == InitSpace /\ [][Next]_vars

(***************************************************************************)
(* has_one: a field X of a serialized or a zero-copy account type with one *)
(* has_one naming the field Y, declared before or after X; the reference   *)
(* X stores is or is not the key of Y, and a load of X succeeds or fails.  *)
(***************************************************************************)
HasOneTys == {"Account", "ProgramAccount", "Loader", "AccountLoader"}

HasOneGroups ==
    {Group(S, <<[join_target |-> "authority", error |-> e]>>, <<>>, <<>>) :
        S \in {{}, {"mutable"}}, e \in {None, Some("CustomError")}}

InitHasOne ==
    /\ f \in {Field(ty, g) : ty \in HasOneTys, g \in HasOneGroups}
    /\ \E w \in BOOLEAN :
            info = [AccountInfo(KEY_T, 200, PROGRAM_ID, 1) EXCEPT
                        !.is_writable = w]
    /\ \E authority \in {KEY_AUTHORITY, KEY_X},
          loadable \in BOOLEAN, target_first \in BOOLEAN :
            env = [Env(1, authority) EXCEPT !.loadable = loadable,
                                            !.target_first = target_first]
    /\ payer = 1000
    /\ Idle

SpecHasOne == InitHasOne /\ [][NextChecks]_vars

(***************************************************************************)
(* zeroed: a field with zeroed on accounts whose buffer has less than 8    *)
(* bytes, or 9 bytes each of which is zero or not.                         *)
(***************************************************************************)
ByteValues == {0, 255}

Buffers ==
    [1..9 -> ByteValues] \cup {<<>>, <<0, 0, 0, 0>>, <<255, 0, 0, 0, 0, 0, 0>>}

ZeroedGroups == {Group(S, <<>>, <<>>, <<>>) : S \in {{"zeroed"},
                                                     {"zeroed", "mutable"}}}

InitZeroed ==
    /\ f \in {Field("Account", g) : g \in ZeroedGroups}
    /\ \E data \in Buffers, w \in BOOLEAN :
            info = [AccountInfo(KEY_T, 200, PROGRAM_ID, 0) EXCEPT
                        !.data = data, !.data_len = Len(data),
                        !.is_writable = w]
    /\ payer = 1000
    /\ env = Env(1, KEY_AUTHORITY)
    /\ Idle

SpecZeroed == InitZeroed /\ [][NextChecks]_vars

(***************************************************************************)
(* init and init_if_needed on accounts that exist already: a field of a    *)
(* raw account type (UncheckedAccount::try_from wraps the account handle   *)
(* and compares nothing) with an init of each kind, on an account owned by *)
(* the system program, by the owner the kind assigns or by another one.    *)
(***************************************************************************)
RawTys == {"UncheckedAccount", "AccountInfo"}

ExistingInits ==
    {InitGroup(n, None, Some(16), k) :
        n \in BOOLEAN,
        k \in {KindProgram(None), KindProgram(Some(OTHER_PROGRAM)),
               KindToken, KindMint, KindAssociatedToken}}

ExistingGroups ==
    {[Group({"rent_exempt"}, <<>>, <<>>, <<>>) EXCEPT !.init = Some(i)] :
        i \in ExistingInits}

InitExisting ==
    /\ f \in {Field(ty, g) : ty \in RawTys, g \in ExistingGroups}
    /\ \E lamports \in {0, 1, 200},
          owner \in {SYSTEM_PROGRAM, PROGRAM_ID, TOKEN_PROGRAM,
                     OTHER_PROGRAM} :
            info = AccountInfo(KEY_T, lamports, owner, 0)
    /\ payer = 1000
    /\ env = Env(1, KEY_AUTHORITY)
    /\ Idle

SpecExisting == InitExisting /\ [][Next]_vars

(***************************************************************************)
(* Two fields that carry init in one instruction, given two accounts or    *)
(* the same account.  The checks of the second field run after those of    *)
(* the first, in the same instruction, on the accounts as the first left   *)
(* them.                                                                   *)
(***************************************************************************)
Other(field, account, done) ==
    [f |-> field, info |-> account, done |-> done]

\* the next field of the instruction takes its turn
next_field ==
    /\ pc = "returned"
    /\ err = NoError
    /\ others # <<>>
    /\ ~others[1].done
    /\ f' = others[1].f
    /\ info' = IF others[1].info.key = info.key THEN info
               ELSE others[1].info
    /\ others' = <<Other(f, info, TRUE)>>
    /\ pc' = "generate"
    /\ evaluated' = <<>>
    /\ UNCHANGED <<constraints, rent, idx, payer, env, cur, invocations, err,
                   run>>
    /\ UNCHANGED <<nodup_vars, lib_vars>>

TwoInits ==
    {InitGroup(n, None, Some(sp), k) :
        n \in BOOLEAN, sp \in {0, 16},
        k \in {KindProgram(None), KindProgram(Some(SYSTEM_PROGRAM))}}
    \cup {InitGroup(n, None, None, k) :
            n \in BOOLEAN, k \in {KindToken, KindMint, KindAssociatedToken}}

TwoGroups ==
    {[Group({"rent_exempt"}, <<>>, <<>>, <<>>) EXCEPT !.init = Some(i)] :
        i \in TwoInits}

InitTwo ==
    /\ f \in {Field("Account", g) : g \in TwoGroups}
    /\ \E lamports \in {0, 1} :
            info = AccountInfo(KEY_T, lamports, SYSTEM_PROGRAM, 0)
    /\ \E g \in TwoGroups, key \in {KEY_T, KEY_X}, lamports \in {0, 1} :
            others = <<Other([Field("Account", g) EXCEPT !.ident = "second"],
                             AccountInfo(key, lamports, SYSTEM_PROGRAM, 0),
                             FALSE)>>
    /\ NoCalls
    /\ payer = 1000
    /\ env = Env(1, KEY_AUTHORITY)
    /\ constraints = <<>>
    /\ rent = FALSE
    /\ pc = "generate"
    /\ idx = 1
    /\ cur = NoLocals
    /\ invocations = <<>>
    /\ evaluated = <<>>
    /\ err = NoError
    /\ run = 1
    /\ accs = <<>>
    /\ no_dup = <<>>
    /\ keys = <<>>

NextTwo ==
    \/ generate
    \/ check
    \/ init
    \/ create_account
    \/ transfer
    \/ allocate
    \/ assign
    \/ initialize_account
    \/ initialize_mint
    \/ create_associated
    \/ ok
    \/ next_field

SpecTwo == InitTwo /\ [][NextTwo]_vars

(***************************************************************************)
(* Duplicate-account detection (feature nodup).  An AccountsStruct is a    *)
(* list of fields; a name is the sequence of its path segments, <<i>> for  *)
(* the field declared at position i and <<i, n>> for the field n of the    *)
(* composite field declared at position i.                                 *)
(***************************************************************************)
MaxFields == 3      \* fields of an AccountsStruct

\* AccountField::Field
PlainField(i, mutable, dup) ==
    [composite |-> FALSE, ident |-> <<i>>,
     constraints |-> [mutable |-> mutable, dup |-> dup]]

\* AccountField::CompositeField with the fields Fields::fields gives
CompositeField(i, fields) ==
    [composite |-> TRUE, ident |-> <<i>>, fields |-> fields]

\* ConstraintGroup::is_mutable
is_mutable(c_group) == IsSome(c_group.mutable)

\* the check generate_constraint_no_dup emits
generate_constraint_no_dup(my_field, other_field) ==
    [tag |-> "key", my_field |-> my_field, other_field |-> other_field]

handle_composite_field(previous_field, field) == <<>>

handle_field(previous_field, my_field) ==
    IF ~previous_field.composite
    THEN IF /\ ~is_mutable(my_field.constraints)
            /\ ~is_mutable(previous_field.constraints)
         THEN <<>>
         ELSE IF IsSome(my_field.constraints.dup)
              THEN LET my_dup_constraint == Unwrap(my_field.constraints.dup)
                   IN
                   IF (IF IsSome(previous_field.constraints.dup)
                       THEN my_dup_constraint.target
                            # Unwrap(previous_field.constraints.dup).target
                       ELSE my_dup_constraint.target # previous_field.ident)
                   THEN <<generate_constraint_no_dup(previous_field.ident,
                                                     my_field.ident)>>
                   ELSE <<>>
              ELSE <<generate_constraint_no_dup(previous_field.ident,
                                                my_field.ident)>>
    ELSE <<[tag |-> "fields", cf_name |-> previous_field.ident,
            f_name |-> my_field.ident,
            has_dup_target |-> IsSome(my_field.constraints.dup),
            dup_target |-> my_field.constraints.dup]>>

\* the checks of one field against the fields declared before it
RECURSIVE AgainstPrevious(_, _, _)
AgainstPrevious(fields, j, i) ==
    IF i >= j THEN <<>>
    ELSE (IF fields[j].composite
          THEN handle_composite_field(fields[i], fields[j])
          ELSE handle_field(fields[i], fields[j]))
         \o AgainstPrevious(fields, j, i + 1)

RECURSIVE FlatMapFields(_, _)
FlatMapFields(fields, j) ==
    IF j > Len(fields) THEN <<>>
    ELSE AgainstPrevious(fields, j, 1) \o FlatMapFields(fields, j + 1)

generate_constraints_no_dup ==
    /\ pc = "generate_no_dup"
    /\ no_dup' = FlatMapFields(accs, 1)
    /\ pc' = "no_dup"
    /\ idx' = 1
    /\ UNCHANGED <<f, constraints, rent, info, payer, env, cur, invocations,
                   evaluated, err, run, accs, keys>>
    /\ UNCHANGED <<others, lib_vars>>

\* the field of the struct a name of one segment stands for
FieldOf(name) == accs[name[1]]

\* the emitted loop over the fields of a composite field declared earlier
FieldsLoop(c) ==
    LET cf == FieldOf(c.cf_name)
        my_field == FieldOf(c.f_name)
        Fails(field) ==
            /\ ~(~is_mutable(my_field.constraints) /\ ~field.is_mutable)
            /\ IF c.has_dup_target
               THEN LET path == Append(cf.ident,
                                       IF IsSome(field.dup_target)
                                       THEN Unwrap(field.dup_target)
                                       ELSE field.name)
                    IN /\ Unwrap(c.dup_target).target # path
                       /\ keys[c.f_name] = keys[Append(cf.ident, field.name)]
               ELSE keys[c.f_name] = keys[Append(cf.ident, field.name)]
    IN IF \E k \in 1..Len(cf.fields) : Fails(cf.fields[k])
       THEN "ConstraintNoDup" ELSE NoError

\* one emitted duplicate check at run time
no_dup_check ==
    /\ pc = "no_dup"
    /\ idx <= Len(no_dup)
    /\ LET c == no_dup[idx]
           e == IF c.tag = "key"
                THEN IF keys[c.my_field] = keys[c.other_field]
                     THEN "ConstraintNoDup" ELSE NoError
                ELSE FieldsLoop(c)
       IN IF e # NoError THEN ReturnErr(e)
          ELSE pc' = "no_dup" /\ idx' = idx + 1 /\ UNCHANGED err
    /\ UNCHANGED <<f, constraints, rent, info, payer, env, cur, invocations,
                   evaluated, run, accs, no_dup, keys>>
    /\ UNCHANGED <<others, lib_vars>>

\* the end of the emitted duplicate checks
no_dup_ok ==
    /\ pc = "no_dup"
    /\ idx > Len(no_dup)
    /\ pc' = "returned"
    /\ UNCHANGED <<f, constraints, rent, idx, info, payer, env, cur,
                   invocations, evaluated, err, run, accs, no_dup, keys>>
    /\ UNCHANGED <<others, lib_vars>>

\* The structs the pass is applied to: MaxFields fields, the first or the
\* last of them composite or none, each plain field mutable or not and with
\* or without a dup declaration naming another field of the struct or a
\* field of the composite field.
CompositeAt == {0, 1, MaxFields}

Targets(c) ==
    {<<i>> : i \in 1..MaxFields}
    \cup (IF c > 0 THEN {<<c, 0>>, <<c, 1>>} ELSE {})

Mutables == {None, Some([error |-> None])}

Dups(c) ==
    {d \in [1..MaxFields -> {None} \cup {Some([target |-> t]) :
                                             t \in Targets(c)}] :
        \A i \in 1..MaxFields : d[i] # Some([target |-> <<i>>])}

InnerFields ==
    {[name |-> 0, is_mutable |-> m, dup_target |-> d] :
        m \in BOOLEAN, d \in {None, Some(1)}}

Struct(c, mu, du, inner) ==
    [i \in 1..MaxFields |->
        IF i = c THEN CompositeField(i, <<inner>>)
        ELSE PlainField(i, mu[i], du[i])]

\* the names of the accounts a struct declares
Leaves(fields) ==
    {fields[i].ident : i \in {j \in 1..Len(fields) : ~fields[j].composite}}
    \cup UNION {{Append(fields[i].ident, fields[i].fields[k].name) :
                    k \in 1..Len(fields[i].fields)} :
                i \in {j \in 1..Len(fields) : fields[j].composite}}

FirstLeaf(fields) ==
    IF fields[1].composite
    THEN Append(fields[1].ident, fields[1].fields[1].name)
    ELSE fields[1].ident

InitNoDup ==
    /\ \E c \in CompositeAt, mu \in [1..MaxFields -> Mutables],
          inner \in InnerFields :
            \E du \in Dups(c) : accs = Struct(c, mu, du, inner)
    /\ keys \in {k \in [Leaves(accs) -> {1, 2}] : k[FirstLeaf(accs)] = 1}
    /\ no_dup = <<>>
    /\ pc = "generate_no_dup"
    /\ idx = 1
    /\ err = NoError
    /\ run = 1
    /\ f = Field("Account", Group({}, <<>>, <<>>, <<>>))
    /\ constraints = <<>>
    /\ rent = FALSE
    /\ info = AccountInfo(KEY_T, 0, SYSTEM_PROGRAM, 0)
    /\ payer = 0
    /\ env = Env(1, KEY_AUTHORITY)
    /\ cur = NoLocals
    /\ invocations = <<>>
    /\ evaluated = <<>>
    /\ others = <<>>
    /\ NoCalls

NextNoDup ==
    \/ generate_constraints_no_dup
    \/ no_dup_check
    \/ no_dup_ok

SpecNoDup == InitNoDup /\ [][NextNoDup]_vars

(***************************************************************************)
(* Composite fields: generate_composite keeps the raw and literal          *)
(* constraints of the linearized group and panics on any other.            *)
(***************************************************************************)
\* the result of generate_composite: whether it panicked and, if not, the
\* constraints whose checks it emits
generate_composite_Filters(c_group) ==
    [panic |-> FALSE,
     checks |-> SelectSeq(linearize(c_group),
                          LAMBDA k : k.kind \in {"Raw", "Literal"})]

generate_composite(c_group) ==
    LET lin == linearize(c_group) IN
    IF \E i \in 1..Len(lin) : lin[i].kind \notin {"Raw", "Literal"}
    THEN [panic |-> TRUE, checks |-> <<>>]
    ELSE [panic |-> FALSE, checks |-> lin]

\* the check emitted for one constraint of a composite field
generate_constraint_composite(k) ==
    CASE k.kind = "Raw" ->
            IF ~env.exprs[k.c.raw]
            THEN generate_custom_error(k.c.error, "ConstraintRaw") ELSE NoError
      [] k.kind = "Literal" ->
            IF ~env.exprs[k.c.lit] THEN "Deprecated" ELSE NoError
      [] OTHER -> "Panic"

\* compilation of a composite field
compile_composite ==
    /\ pc = "generate_composite"
    /\ LET out == generate_composite(f.constraints) IN
       /\ constraints' = out.checks
       /\ pc' = IF out.panic THEN "panic" ELSE "check"
    /\ idx' = 1
    /\ UNCHANGED <<f, rent, info, payer, env, cur, invocations, evaluated,
                   err, run>>
    /\ UNCHANGED <<nodup_vars, others, lib_vars>>

\* one emitted check of a composite field
check_composite ==
    /\ AtCheck
    /\ evaluated' = Append(evaluated, constraints[idx].kind)
    /\ LET e == generate_constraint_composite(constraints[idx]) IN
       IF e # NoError THEN ReturnErr(e) ELSE NextCheck
    /\ UNCHANGED <<f, constraints, rent, info, payer, env, cur, invocations,
                   run>>
    /\ UNCHANGED <<nodup_vars, others, lib_vars>>

\* CompositeField { ident, constraints, .. }
CompositeOf(c_group) == Field("CompositeField", c_group)

\* every group of LinGroups on a composite field, each expression of the
\* raw and literal constraints true or false
InitComposite ==
    /\ \E g \in LinGroups : f = CompositeOf(g)
    /\ \E e1, e2 \in BOOLEAN :
          env = [Env(1, KEY_AUTHORITY) EXCEPT !.exprs = [e1 |-> e1, e2 |-> e2]]
    /\ info = AccountInfo(KEY_T, 0, SYSTEM_PROGRAM, 0)
    /\ payer = 1000
    /\ constraints = <<>>
    /\ rent = FALSE
    /\ pc = "generate_composite"
    /\ idx = 1
    /\ cur = NoLocals
    /\ invocations = <<>>
    /\ evaluated = <<>>
    /\ err = NoError
    /\ run = 1
    /\ accs = <<>>
    /\ no_dup = <<>>
    /\ keys = <<>>
    /\ others = <<>>
    /\ NoCalls

NextComposite ==
    \/ compile_composite
    \/ check_composite
    \/ ok

SpecComposite == InitComposite /\ [][NextComposite]_vars

(***************************************************************************)
(* Runtime library: CpiContext over an UncheckedAccount, and               *)
(* UncheckedAccount::try_accounts.                                         *)
(***************************************************************************)
\* the accounts the library calls are given
LibInfo(key, w, s) ==
    [AccountInfo(key, 0, SYSTEM_PROGRAM, 0) EXCEPT
        !.is_writable = w, !.is_signer = s]

LibInfos ==
    {LibInfo(key, w, s) : key \in {KEY_AUTHORITY, KEY_X}, w, s \in BOOLEAN}

TargetProgram ==
    [AccountInfo(TOKEN_PROGRAM, 1, OTHER_PROGRAM, 0) EXCEPT
        !.is_writable = FALSE, !.is_signer = FALSE, !.executable = TRUE]

\* AccountMeta::new / AccountMeta::new_readonly
AccountMeta_new(pubkey, is_signer) ==
    [pubkey |-> pubkey, is_signer |-> is_signer, is_writable |-> TRUE]

AccountMeta_new_readonly(pubkey, is_signer) ==
    [pubkey |-> pubkey, is_signer |-> is_signer, is_writable |-> FALSE]

\* <UncheckedAccount as ToAccountMetas>::to_account_metas
UncheckedAccount_to_account_metas(self, is_signer) ==
    LET signer == IF IsSome(is_signer) THEN Unwrap(is_signer)
                  ELSE self.is_signer
    IN <<IF self.is_writable THEN AccountMeta_new(self.key, signer)
         ELSE AccountMeta_new_readonly(self.key, signer)>>

\* <UncheckedAccount as ToAccountInfos>::to_account_infos
UncheckedAccount_to_account_infos(self) == <<self>>

\* CpiContext::new
CpiContext_new(program, accs_) ==
    [accounts |-> accs_, remaining_accounts |-> <<>>, program |-> program,
     signer_seeds |-> <<>>]

\* <CpiContext as ToAccountInfos>::to_account_infos
CpiContext_to_account_infos(self) ==
    Append(UncheckedAccount_to_account_infos(self.accounts)
           \o self.remaining_accounts,
           self.program)

\* <CpiContext as ToAccountMetas>::to_account_metas
CpiContext_to_account_metas_NoRemaining(self, is_signer) ==
    UncheckedAccount_to_account_metas(self.accounts, is_signer)

CpiContext_to_account_metas(self, is_signer) ==
    UncheckedAccount_to_account_metas(self.accounts, is_signer)
    \o [i \in 1..Len(self.remaining_accounts) |->
            LET acc == self.remaining_accounts[i] IN
            IF acc.is_writable THEN AccountMeta_new(acc.key, acc.is_signer)
            ELSE AccountMeta_new_readonly(acc.key, acc.is_signer)]

\* what the compiler variables hold while the library is exercised
NoCompiler ==
    /\ f = Field("UncheckedAccount", Group({}, <<>>, <<>>, <<>>))
    /\ info = AccountInfo(KEY_T, 0, SYSTEM_PROGRAM, 0)
    /\ payer = 0
    /\ env = Env(1, KEY_AUTHORITY)
    /\ constraints = <<>>
    /\ rent = FALSE
    /\ idx = 1
    /\ cur = NoLocals
    /\ invocations = <<>>
    /\ evaluated = <<>>
    /\ err = NoError
    /\ run = 1
    /\ accs = <<>>
    /\ no_dup = <<>>
    /\ keys = <<>>
    /\ others = <<>>

compiler_vars ==
    <<f, constraints, rent, pc, idx, info, payer, env, cur, invocations,
      evaluated, err, run, nodup_vars, others>>

\* CpiContext::with_remaining_accounts
with_remaining_accounts ==
    /\ pc = "cpi"
    /\ ctx.remaining_accounts = <<>>
    /\ infos = None
    /\ metas = None
    /\ \E ra \in SeqsUpTo(LibInfos, MaxRemaining) \ {<<>>} :
          ctx' = [ctx EXCEPT !.remaining_accounts = ra]
    /\ UNCHANGED <<infos, metas, accounts, result>>
    /\ UNCHANGED compiler_vars

\* ctx.to_account_infos()
to_account_infos ==
    /\ pc = "cpi"
    /\ infos = None
    /\ infos' = Some(CpiContext_to_account_infos(ctx))
    /\ UNCHANGED <<ctx, metas, accounts, result>>
    /\ UNCHANGED compiler_vars

\* ctx.to_account_metas(is_signer)
to_account_metas ==
    /\ pc = "cpi"
    /\ metas = None
    /\ \E is_signer \in {None, Some(TRUE), Some(FALSE)} :
          metas' = Some([is_signer |-> is_signer,
                         metas |-> CpiContext_to_account_metas(ctx,
                                                               is_signer)])
    /\ UNCHANGED <<ctx, infos, accounts, result>>
    /\ UNCHANGED compiler_vars

\* CpiContext::new(program, accounts) for every UncheckedAccount
InitCpi ==
    /\ \E a \in LibInfos : ctx = CpiContext_new(TargetProgram, a)
    /\ infos = None
    /\ metas = None
    /\ accounts = <<>>
    /\ result = None
    /\ pc = "cpi"
    /\ NoCompiler

NextCpi ==
    \/ with_remaining_accounts
    \/ to_account_infos
    \/ to_account_metas

SpecCpi == InitCpi /\ [][NextCpi]_vars

\* Result<UncheckedAccount, ProgramError>
Ok(v) == [tag |-> "Ok", value |-> v]
Err(e) == [tag |-> "Err", value |-> e]

\* UncheckedAccount::try_accounts: the result and the slice it leaves
try_accounts_KeepsSlice(list) ==
    IF list = <<>>
    THEN [result |-> Err("AccountNotEnoughKeys"), accounts |-> list]
    ELSE [result |-> Ok(list[1]), accounts |-> list]

try_accounts(list) ==
    IF list = <<>>
    THEN [result |-> Err("AccountNotEnoughKeys"), accounts |-> list]
    ELSE [result |-> Ok(list[1]), accounts |-> SubSeq(list, 2, Len(list))]

\* one call of UncheckedAccount::try_accounts(program_id, &mut accounts, ..);
\* a caller stops at the first error
call_try_accounts ==
    /\ pc = "try_accounts"
    /\ IF result = None THEN TRUE ELSE Unwrap(result).tag = "Ok"
    /\ LET r == try_accounts(accounts) IN
       /\ result' = Some(r.result)
       /\ accounts' = r.accounts
    /\ UNCHANGED <<ctx, infos, metas>>
    /\ UNCHANGED compiler_vars

InitTryAccounts ==
    /\ accounts \in SeqsUpTo(LibInfos, MaxAccounts)
    /\ result = None
    /\ ctx = None
    /\ infos = None
    /\ metas = None
    /\ pc = "try_accounts"
    /\ NoCompiler

NextTryAccounts == call_try_accounts

SpecTryAccounts == InitTryAccounts /\ [][NextTryAccounts]_vars

(***************************************************************************)
(* Properties.                                                             *)
(***************************************************************************)
\* The priority order the design fixes for the kinds.
PriorityOrder ==
    <<"Zeroed", "Init", "Seeds", "AssociatedToken", "Mut", "Signer", "HasOne",
      "Dup", "Literal", "Raw", "Owner", "RentExempt", "Executable", "State",
      "Close", "Address">>

Rank(kind) == CHOOSE i \in 1..Len(PriorityOrder) : PriorityOrder[i] = kind

ListKinds == {"HasOne", "Literal", "Raw"}

IsKind(kind, k) == k.kind = kind

\* The payloads of one kind, in the order in which they were emitted.
Emitted(kind) ==
    LET sel == SelectSeq(constraints, LAMBDA k : k.kind = kind) IN
    [i \in 1..Len(sel) |-> sel[i].c]

Position(kind) == CHOOSE i \in 1..Len(constraints) : constraints[i].kind = kind

Kinds(seq) == {seq[i] : i \in 1..Len(seq)}

TheInit == Unwrap(f.constraints.init)

\* C1: the sequence linearize returns lists the kinds in the fixed
\* priority order zeroed, init, seeds, associated_token, mut, signer,
\* has_one, dup, literal, raw, owner, rent_exempt, executable, state,
\* close, address, with at most one entry of each single-slot kind, and the
\* has_one, literal and raw entries in the order of their declared lists.
C1_LinearizeOrder ==
    pc # "generate" =>
        /\ \A i, j \in 1..Len(constraints) :
            i < j =>
                \/ Rank(constraints[i].kind) < Rank(constraints[j].kind)
                \/ /\ constraints[i].kind = constraints[j].kind
                   /\ constraints[i].kind \in ListKinds
        /\ Emitted("HasOne") = f.constraints.has_one
        /\ Emitted("Literal") = f.constraints.literal
        /\ Emitted("Raw") = f.constraints.raw

\* A group with init, seeds and the has_one list <<mint, authority>> has
\* been linearized into four constraints.
C1_Witness ==
    /\ pc # "generate"
    /\ IsSome(f.constraints.init)
    /\ IsSome(f.constraints.seeds)
    /\ Len(f.constraints.has_one) = 2
    /\ f.constraints.has_one[1].join_target = "mint"
    /\ f.constraints.has_one[2].join_target = "authority"
    /\ Len(constraints) = 4

\* C2: once a run has returned an error, nothing more happens in it: no
\* further check is evaluated, no invocation is issued, no account changes
\* and the error stays the one returned.
C2_FailFast ==
    [][err # NoError =>
        /\ evaluated' = evaluated
        /\ invocations' = invocations
        /\ info' = info
        /\ payer' = payer
        /\ err' = err]_vars

\* The zeroed check failed in front of an init and of a has_one: the run
\* returned with neither evaluated and nothing invoked.
C2_Witness ==
    /\ pc = "returned"
    /\ err = "ConstraintZero"
    /\ IsSome(f.constraints.init)
    /\ Len(f.constraints.has_one) = 1
    /\ evaluated = <<"Zeroed">>
    /\ invocations = <<>>
    /\ info.owner = PROGRAM_ID

\* The checks of the emitted sequence that fail on the current accounts.
Failing == {i \in 1..Len(constraints) :
                generate_constraint(constraints[i]) # NoError}

StripError(o) ==
    [i \in 1..Len(o) |-> [o[i] EXCEPT !.error = None]]

\* The group with every custom error removed.
StripErrors(g) ==
    [g EXCEPT !.mutable = StripError(g.mutable),
              !.signer = StripError(g.signer),
              !.owner = StripError(g.owner),
              !.address = StripError(g.address),
              !.has_one = StripError(g.has_one),
              !.raw = StripError(g.raw)]

FirstFailing(cs) ==
    LET F == {i \in 1..Len(cs) : generate_constraint(cs[i]) # NoError} IN
    IF F = {} THEN 0 ELSE CHOOSE i \in F : \A j \in F : i <= j

\* C3: a run over checks that read only (no init) returns the error of the
\* failing check of lowest priority rank (the earliest declared one among
\* several of the same list kind), and no error when none fails; the number
\* of checks evaluated up to the failure is the same as for the group
\* without its custom errors.
C3_FirstFailingInOrder ==
    pc = "returned" =>
        /\ Failing = {} => err = NoError
        /\ Failing # {} =>
            \E i \in Failing :
                /\ \A j \in Failing \ {i} :
                    \/ Rank(constraints[i].kind) < Rank(constraints[j].kind)
                    \/ /\ constraints[i].kind = constraints[j].kind
                       /\ i < j
                /\ err = generate_constraint(constraints[i])
                /\ Len(evaluated) = i
        /\ Len(evaluated)
              = (IF FirstFailing(linearize(StripErrors(f.constraints))) = 0
                 THEN Len(constraints)
                 ELSE FirstFailing(linearize(StripErrors(f.constraints))))

\* Both mut and signer fail, mut carries a custom error: the custom error
\* of mut is returned after one evaluation.
C3_Witness ==
    /\ pc = "returned"
    /\ IsSome(f.constraints.mutable)
    /\ IsSome(f.constraints.signer)
    /\ ~info.is_writable
    /\ ~info.is_signer
    /\ Unwrap(f.constraints.mutable).error = Some("CustomError")
    /\ Unwrap(f.constraints.signer).error = None
    /\ err = "CustomError"
    /\ evaluated = <<"Mut">>

\* C4: in the emitted sequence every has_one comes after init and after
\* seeds, and at run time a has_one is evaluated only after the init of
\* the group and the seeds check of the group were evaluated in the same
\* run, with init finished (control back at the checks) and no error
\* returned before.
C4_HasOneAfterInitAndSeeds ==
    /\ pc # "generate" =>
        \A i, j \in 1..Len(constraints) :
            /\ constraints[i].kind \in {"Init", "Seeds"}
            /\ constraints[j].kind = "HasOne"
            => i < j
    /\ \A j \in 1..Len(evaluated) :
        evaluated[j] = "HasOne" =>
            /\ IsSome(f.constraints.init) =>
                \E i \in 1..(j - 1) : evaluated[i] = "Init"
            /\ IsSome(f.constraints.seeds) =>
                \E i \in 1..(j - 1) : evaluated[i] = "Seeds"
            /\ pc \in {"check", "returned"}
            /\ idx >= Position("HasOne")
            /\ \A i \in 1..Len(invocations) : invocations[i].ok

\* An account was created by init, passed the seeds check, and the has_one
\* check was evaluated after both.
C4_Witness ==
    /\ IsSome(f.constraints.init)
    /\ IsSome(f.constraints.seeds)
    /\ evaluated = <<"Init", "Seeds", "HasOne">>
    /\ Len(invocations) = 1
    /\ invocations[1].op = "create_account"
    /\ info.owner = PROGRAM_ID

\* C5: in a second execution that follows a successful first one on the
\* same accounts, an init_if_needed initializer issues no invocation and
\* the execution returns no error, whatever the kind and the declared
\* owner.
C5_IfNeededIdempotent ==
    (/\ run = 2
     /\ IsSome(f.constraints.init)
     /\ TheInit.if_needed)
    => /\ invocations = <<>>
       /\ err = NoError

\* Where init goes when it takes the creation path, and the positions at
\* which an invocation is issued.
FirstInvocationPcs ==
    {"create_account", "transfer", "allocate", "create_associated"}

CreatorPcs == {"create_account", "transfer", "allocate", "assign"}

InvocationPcs ==
    CreatorPcs \cup {"initialize_account", "initialize_mint",
                     "create_associated"}

\* C6: the init check goes on to an invocation exactly when if_needed is
\* unset or the account is owned by the system program, and every such
\* position issues an invocation; otherwise it goes straight to the next
\* check, issuing nothing and changing nothing.
C6_CreationIffNeeded ==
    [][/\ (AtCheck /\ constraints[idx].kind = "Init") =>
            IF ~constraints[idx].c.if_needed \/ info.owner = SYSTEM_PROGRAM
            THEN pc' \in FirstInvocationPcs
            ELSE /\ pc' = "check"
                 /\ idx' = idx + 1
                 /\ invocations' = invocations
                 /\ info' = info
                 /\ payer' = payer
       /\ pc \in InvocationPcs => Len(invocations') = Len(invocations) + 1
      ]_vars

\* A plain init on a funded account owned by another program has issued
\* allocate and is about to issue assign.
C6_Witness ==
    /\ IsSome(f.constraints.init)
    /\ ~TheInit.if_needed
    /\ info.owner = OTHER_PROGRAM
    /\ pc = "assign"
    /\ Len(invocations) = 1
    /\ invocations[1].op = "allocate"

\* The field of the end-to-end scenarios: init with a payer, kind Program
\* without a declared owner, space 16, and the rent_exempt check that
\* binds the rent handle.
ScenarioGroup ==
    RunGroup(InitGroup(FALSE, None, Some(16), KindProgram(None)),
             FALSE, FALSE, <<>>, Some([mode |-> "Enforce"]))

InitEntered == "Init" \in Kinds(evaluated)

Expected8(i, succeeded) ==
    CASE i = 1 -> Invocation("system", "transfer",
                             [from |-> "payer", to |-> "target",
                              lamports |-> minimum_balance(16) - 1],
                             FALSE, None, succeeded)
      [] i = 2 -> Invocation("system", "allocate",
                             [to |-> "target", space |-> 16],
                             TRUE, None, succeeded)
      [] i = 3 -> Invocation("system", "assign",
                             [to |-> "target", owner |-> PROGRAM_ID],
                             TRUE, None, succeeded)

C9_CreatorPostcondition ==
    [][/\ pc \in CreatorPcs =>
            /\ info'.lamports >= info.lamports
            /\ info'.lamports - info.lamports = payer - payer'
       /\ (pc \in {"create_account", "assign"} /\ pc' # "returned") =>
            /\ info'.lamports >= minimum_balance(cur.space)
            /\ info'.data_len = cur.space
            /\ info'.owner = cur.owner
      ]_vars

\* The creator completed on a pre-funded account through a transfer of
\* the shortfall, allocate and assign to a declared owner.
C9_Witness ==
    /\ Len(invocations) = 3
    /\ invocations[1].op = "transfer"
    /\ invocations[1].args.lamports = 11
    /\ invocations[3].op = "assign"
    /\ invocations[3].ok
    /\ cur.current_lamports = 1
    /\ info.lamports = 12
    /\ info.data_len = 12
    /\ info.owner = OTHER_PROGRAM

\* C10: a failed invocation is the last invocation of its run: nothing is
\* invoked after it, and the run has returned its error.
C10_InvocationFailureAborts ==
    \A i \in 1..Len(invocations) :
        ~invocations[i].ok =>
            /\ i = Len(invocations)
            /\ pc = "returned"
            /\ err = "InvokeError"

\* For a token account the transfer succeeded and the allocate failed: no
\* assign and no initialize_account followed.
C10_Witness ==
    /\ IsSome(f.constraints.init)
    /\ TheInit.kind.tag = "Token"
    /\ Len(invocations) = 2
    /\ invocations[1].op = "transfer"
    /\ invocations[1].ok
    /\ invocations[2].op = "allocate"
    /\ ~invocations[2].ok
    /\ pc = "returned"
    /\ err = "InvokeError"

(***************************************************************************)
(* Seeds.                                                                  *)
(***************************************************************************)
TheSeeds == Unwrap(f.constraints.seeds)

\* derive(S, P) = (A, b)
Canonical == find_program_address(TheSeeds.seeds)

LastEvaluated(kind) ==
    Len(evaluated) > 0 /\ evaluated[Len(evaluated)] = kind

SeedsFailed ==
    LastEvaluated("Seeds") /\ pc = "returned" /\ err = "ConstraintSeeds"

SeedsPassed ==
    "Seeds" \in Kinds(evaluated) /\ ~(LastEvaluated("Seeds") /\ err # NoError)

\* C11: with derive(S, P) = (A, b), a seeds check with the explicit bump b
\* on the account with key A passes, and a seeds check with any other
\* explicit bump on that account fails with the seeds error.
C11_PdaRoundTrip ==
    (/\ IsSome(f.constraints.seeds)
     /\ IsSome(TheSeeds.bump)
     /\ "Seeds" \in Kinds(evaluated)
     /\ info.key = Canonical[1])
    => IF Unwrap(TheSeeds.bump) = Canonical[2] THEN SeedsPassed
       ELSE SeedsFailed

\* a check without init, with an explicit bump that is not the canonical one
\* and gives an address off the curve, failed on the account at A
C11_Witness ==
    /\ IsSome(f.constraints.seeds)
    /\ IsNone(f.constraints.init)
    /\ IsSome(TheSeeds.bump)
    /\ Unwrap(TheSeeds.bump) # Canonical[2]
    /\ OffCurve(TheSeeds.seeds, Unwrap(TheSeeds.bump))
    /\ info.key = Canonical[1]
    /\ SeedsFailed

\* C12: a field with init, seeds and an explicit bump succeeds only when the
\* bump is the canonical one; with any other bump the seeds check fails with
\* the seeds error, also on the account at the address of that bump.
C12_InitForcesCanonicalBump ==
    (/\ IsSome(f.constraints.init)
     /\ IsSome(f.constraints.seeds)
     /\ IsSome(TheSeeds.bump))
    => /\ (pc = "returned" /\ err = NoError)
            => Unwrap(TheSeeds.bump) = Canonical[2]
       /\ ("Seeds" \in Kinds(evaluated)
                /\ Unwrap(TheSeeds.bump) # Canonical[2])
            => SeedsFailed

\* the account at the off-curve address of a non-canonical bump was created
\* and the seeds check then failed
C12_Witness ==
    /\ IsSome(f.constraints.init)
    /\ IsSome(f.constraints.seeds)
    /\ IsSome(TheSeeds.bump)
    /\ Unwrap(TheSeeds.bump) # Canonical[2]
    /\ OffCurve(TheSeeds.seeds, Unwrap(TheSeeds.bump))
    /\ info.key = PdaAddress(TheSeeds.seeds, Unwrap(TheSeeds.bump))
    /\ Len(invocations) > 0
    /\ SeedsFailed

(***************************************************************************)
(* Rent exemption.                                                         *)
(***************************************************************************)
\* C13: a rent_exempt check in mode Enforce fails for every balance below
\* minimum_balance(space) and passes for every balance at or above it; in
\* mode Skip nothing is checked and the constraint never fails.
C13_RentExemptMonotone ==
    LastEvaluated("RentExempt")
    => IF Unwrap(f.constraints.rent_exempt).mode = "Enforce"
       THEN IF info.lamports < minimum_balance(info.data_len)
            THEN pc = "returned" /\ err = "ConstraintRentExempt"
            ELSE err = NoError
       ELSE err = NoError

\* a funded account below the minimum balance failed the check
C13_Witness ==
    /\ LastEvaluated("RentExempt")
    /\ Unwrap(f.constraints.rent_exempt).mode = "Enforce"
    /\ info.lamports > 0
    /\ info.lamports < minimum_balance(info.data_len)
    /\ err = "ConstraintRentExempt"

(***************************************************************************)
(* Custom errors.                                                          *)
(***************************************************************************)
\* the error of each constraint kind when the author gives none
DefaultError(kind) ==
    CASE kind = "Zeroed" -> "ConstraintZero"
      [] kind = "Mut" -> "ConstraintMut"
      [] kind = "HasOne" -> "ConstraintHasOne"
      [] kind = "Signer" -> "ConstraintSigner"
      [] kind = "Literal" -> "Deprecated"
      [] kind = "Raw" -> "ConstraintRaw"
      [] kind = "Owner" -> "ConstraintOwner"
      [] kind = "RentExempt" -> "ConstraintRentExempt"
      [] kind = "Seeds" -> "ConstraintSeeds"
      [] kind = "Executable" -> "ConstraintExecutable"
      [] kind = "State" -> "ConstraintState"
      [] kind = "Close" -> "ConstraintClose"
      [] kind = "Address" -> "ConstraintAddress"
      [] kind = "AssociatedToken" -> "ConstraintAssociated"

\* the author supplied a custom error with the constraint
HasCustomError(k) == "error" \in DOMAIN k.c /\ IsSome(k.c.error)

\* C14: a failing check returns the custom error when the author supplied
\* one with the constraint, and the default error of its kind otherwise.
C14_CustomErrorReplacesDefault ==
    (pc = "returned" /\ err # NoError)
    => LET k == constraints[idx] IN
       err = IF HasCustomError(k) THEN Unwrap(k.c.error)
             ELSE DefaultError(k.kind)

\* an owner check with a custom error failed with that error
C14_Witness ==
    /\ pc = "returned"
    /\ err = "CustomError"
    /\ constraints[idx].kind = "Owner"
    /\ HasCustomError(constraints[idx])

(***************************************************************************)
(* Duplicate accounts.                                                     *)
(***************************************************************************)
\* whether the declared account with this name is mutable
LeafMutable(name) ==
    IF Len(name) = 1 THEN is_mutable(FieldOf(name).constraints)
    ELSE \E k \in 1..Len(FieldOf(name).fields) :
            /\ FieldOf(name).fields[k].name = name[2]
            /\ FieldOf(name).fields[k].is_mutable

\* whether the declared account a carries a dup declaration with target b
DeclaresDup(a, b) ==
    IF Len(a) = 1
    THEN FieldOf(a).constraints.dup = Some([target |-> b])
    ELSE \E k \in 1..Len(FieldOf(a).fields) :
            /\ FieldOf(a).fields[k].name = a[2]
            /\ IsSome(FieldOf(a).fields[k].dup_target)
            /\ b = <<a[1], Unwrap(FieldOf(a).fields[k].dup_target)>>

\* a dup declaration of one of the two names the other
Exempt(a, b) == DeclaresDup(a, b) \/ DeclaresDup(b, a)

\* the pairs of accounts an emitted duplicate check compares
Compared(c) ==
    IF c.tag = "key" THEN {<<c.my_field, c.other_field>>}
    ELSE {<<c.f_name, Append(c.cf_name, FieldOf(c.cf_name).fields[k].name)>> :
            k \in 1..Len(FieldOf(c.cf_name).fields)}

\* C15: every pair of declared accounts with equal keys of which one is
\* mutable fails the instruction with the duplicate-account error unless a
\* dup declaration exempts the pair, and a pair of accounts neither of which
\* is mutable never causes that error.
C15_NoDupDetection ==
    pc = "returned"
    => /\ err = NoError
            => \A a, b \in Leaves(accs) :
                  (/\ a # b
                   /\ LeafMutable(a) \/ LeafMutable(b)
                   /\ keys[a] = keys[b])
                  => Exempt(a, b)
       /\ err = "ConstraintNoDup"
            => \E p \in Compared(no_dup[idx]) :
                  /\ keys[p[1]] = keys[p[2]]
                  /\ LeafMutable(p[1]) \/ LeafMutable(p[2])

\* C16: equal keys of a field F that declares dup with target G and of G do
\* not fail the instruction, whichever of the two is declared first and
\* whether or not G has a dup declaration: a duplicate-account error comes
\* from a pair neither of which names the other.
C16_DupExemptsTarget ==
    (pc = "returned" /\ err = "ConstraintNoDup")
    => \E p \in Compared(no_dup[idx]) :
          /\ keys[p[1]] = keys[p[2]]
          /\ ~Exempt(p[1], p[2])

(***************************************************************************)
(* Signing authority of seeded fields.                                     *)
(***************************************************************************)
Seeded == IsSome(f.constraints.init) /\ IsSome(TheInit.seeds)

\* the seeds of the field followed by the explicit or the canonical bump
DerivedSeedList ==
    LET s == Unwrap(TheInit.seeds) IN
    Some([seeds |-> s.seeds,
          bump |-> IF IsSome(s.bump) THEN Unwrap(s.bump)
                   ELSE find_program_address(s.seeds)[2]])

SignedBySeeds(inv) == inv.signed /\ inv.signer_seeds = DerivedSeedList

\* C17, as claimed: for each of the four init kinds, when the field is
\* seeded, the derived seed list is passed as signing authority to the
\* invocations that create the account.
C17_SeedsSignCreation ==
    Seeded
    => \A i \in 1..Len(invocations) :
          invocations[i].op \in {"create_account", "allocate", "assign",
                                 "create"}
          => SignedBySeeds(invocations[i])

\* C17, amended: for the kinds Program, Token and Mint the create_account,
\* allocate and assign invocations are signed with the derived seed list;
\* the transfer, the setup calls and the create call of the associated
\* token program carry no signer seeds.
C17_SeedsSignSystemCreation ==
    Seeded
    => \A i \in 1..Len(invocations) :
          IF invocations[i].op \in {"create_account", "allocate", "assign"}
          THEN SignedBySeeds(invocations[i])
          ELSE ~invocations[i].signed /\ invocations[i].signer_seeds = None

\* a seeded token account with an explicit bump was created with
\* create_account signed by the seeds and that bump
C17_Witness ==
    /\ Seeded
    /\ TheInit.kind.tag = "Token"
    /\ IsSome(Unwrap(TheInit.seeds).bump)
    /\ \E i \in 1..Len(invocations) :
          /\ invocations[i].op = "create_account"
          /\ invocations[i].ok
          /\ invocations[i].signed
          /\ invocations[i].signer_seeds
                = Some([seeds |-> Unwrap(TheInit.seeds).seeds,
                        bump |-> Unwrap(Unwrap(TheInit.seeds).bump)])

(***************************************************************************)
(* Token and mint accounts.                                                *)
(***************************************************************************)
IsSetup(inv) == inv.op \in {"initialize_account", "initialize_mint"}

\* the setup invocation of the kind of the field
SetupOf(kind) ==
    IF kind.tag = "Token"
    THEN [program |-> "token", op |-> "initialize_account",
          args |-> [account |-> f.ident, mint |-> kind.mint,
                    authority |-> kind.owner]]
    ELSE [program |-> "token", op |-> "initialize_mint",
          args |-> [mint |-> f.ident, decimals |-> kind.decimals,
                    authority |-> kind.owner,
                    freeze_authority |-> kind.freeze_authority]]

LayoutOf(kind) == IF kind.tag = "Token" THEN TokenAccountLEN ELSE MintLEN

\* C18: for the kinds Token and Mint a run that creates the account first
\* completes the Account Creator (size of the fixed layout, owner the token
\* program) and then issues exactly one setup invocation of its kind; the
\* setup call is never issued before the creation calls nor after a failed
\* one.
C18_SetupAfterCreation ==
    (IsSome(f.constraints.init) /\ TheInit.kind.tag \in {"Token", "Mint"})
    => LET n == Len(invocations) IN
       /\ \A i \in 1..n :
             IsSetup(invocations[i])
             => /\ i = n
                /\ i > 1
                /\ \A j \in 1..(i - 1) :
                      /\ invocations[j].op \in CreatorPcs
                      /\ invocations[j].ok
                /\ info.data_len = LayoutOf(TheInit.kind)
                /\ info.owner = TOKEN_PROGRAM
                /\ info.lamports >= minimum_balance(LayoutOf(TheInit.kind))
                /\ invocations[i].program = SetupOf(TheInit.kind).program
                /\ invocations[i].op = SetupOf(TheInit.kind).op
                /\ invocations[i].args = SetupOf(TheInit.kind).args
       /\ (pc = "returned" /\ err = NoError /\ n > 0)
             => IsSetup(invocations[n])

\* a mint created on a funded account by allocate and assign and then set up
C18_Witness ==
    /\ IsSome(f.constraints.init)
    /\ TheInit.kind.tag = "Mint"
    /\ pc = "returned"
    /\ err = NoError
    /\ Len(invocations) >= 3
    /\ invocations[Len(invocations) - 1].op = "assign"
    /\ invocations[Len(invocations)].op = "initialize_mint"
    /\ invocations[Len(invocations)].ok

(***************************************************************************)
(* Program accounts.                                                       *)
(***************************************************************************)
\* the declared owner when one is given, the invoking program otherwise
RequestedOwner ==
    IF IsSome(TheInit.kind.owner) THEN Unwrap(TheInit.kind.owner)
    ELSE PROGRAM_ID

\* C19: for kind Program the account is created with the declared owner when
\* one is given and with the invoking program as owner otherwise, by
\* create_account as well as by assign, and no setup invocation follows the
\* Account Creator.
C19_ProgramOwner ==
    (IsSome(f.constraints.init) /\ TheInit.kind.tag = "Program")
    => LET n == Len(invocations) IN
       /\ \A i \in 1..n :
             /\ invocations[i].program = "system"
             /\ invocations[i].op \in CreatorPcs
             /\ invocations[i].op \in {"create_account", "assign"}
                  => invocations[i].args.owner = RequestedOwner
       /\ (/\ n > 0
           /\ invocations[n].ok
           /\ invocations[n].op \in {"create_account", "assign"})
             => info.owner = RequestedOwner

\* an account with a declared owner was created on the assign path
C19_Witness ==
    /\ IsSome(f.constraints.init)
    /\ TheInit.kind = KindProgram(Some(OTHER_PROGRAM))
    /\ pc = "returned"
    /\ err = NoError
    /\ Len(invocations) > 0
    /\ invocations[Len(invocations)].op = "assign"
    /\ invocations[Len(invocations)].ok
    /\ info.owner = OTHER_PROGRAM

(***************************************************************************)
(* Associated token accounts.                                              *)
(***************************************************************************)
\* C20: for kind AssociatedToken a run that needs creation issues exactly
\* one invocation, the create call of the associated token program, and
\* none of create_account, transfer, allocate and assign.
C20_AssociatedTokenSingleCall ==
    (IsSome(f.constraints.init) /\ TheInit.kind.tag = "AssociatedToken")
    => /\ Len(invocations) <= 1
       /\ \A i \in 1..Len(invocations) :
             /\ invocations[i].program = "associated_token"
             /\ invocations[i].op = "create"
       /\ (InitEntered /\ pc # "create_associated" /\ Len(invocations) = 0)
             => TheInit.if_needed /\ info.owner # SYSTEM_PROGRAM

\* an associated token account was created by the single create call
C20_Witness ==
    /\ IsSome(f.constraints.init)
    /\ TheInit.kind.tag = "AssociatedToken"
    /\ pc = "returned"
    /\ err = NoError
    /\ Len(invocations) = 1
    /\ invocations[1].op = "create"
    /\ invocations[1].ok
    /\ info.owner = TOKEN_PROGRAM

(***************************************************************************)
(* Space of the created account.                                           *)
(***************************************************************************)
\* the invocations of the Account Creator that carry a size
Sized(inv) == inv.op \in {"create_account", "allocate"}

ZeroCopy == f.ty \in {"Loader", "AccountLoader"}

\* 8 plus the size of the default value of the account type
DefaultSpace ==
    IF ZeroCopy THEN 8 + f.account_ty.pod_len
    ELSE 8 + f.account_ty.default_len

\* C21, as claimed: for every init kind that creates an account the size
\* passed to the creation is the explicit space when one is given, and
\* otherwise 8 plus the size of the default value (serialized, or the
\* fixed layout for a zero-copy account).
C21_ExplicitSpaceUsed ==
    IsSome(f.constraints.init)
    => \A i \in 1..Len(invocations) :
          Sized(invocations[i])
          => invocations[i].args.space
                = IF IsSome(TheInit.space) THEN Unwrap(TheInit.space)
                  ELSE DefaultSpace

\* C21, amended: for the kind Program the size passed to the creation is
\* the explicit space when one is given and otherwise 8 plus the size of
\* the default value (serialized, or the fixed layout for a zero-copy
\* account); for the kinds Token and Mint it is the fixed layout of the
\* token account or mint, whether or not a space is given.
C21_SpacePerKind ==
    IsSome(f.constraints.init)
    => \A i \in 1..Len(invocations) :
          Sized(invocations[i])
          => invocations[i].args.space
                = IF TheInit.kind.tag \in {"Token", "Mint"}
                  THEN LayoutOf(TheInit.kind)
                  ELSE IF IsSome(TheInit.space) THEN Unwrap(TheInit.space)
                  ELSE DefaultSpace

\* a zero-copy account without an explicit space was created with 8 plus
\* the size of its fixed layout
C21_Witness ==
    /\ IsSome(f.constraints.init)
    /\ TheInit.kind.tag = "Program"
    /\ IsNone(TheInit.space)
    /\ f.ty = "AccountLoader"
    /\ Len(invocations) = 1
    /\ invocations[1].op = "create_account"
    /\ invocations[1].ok
    /\ invocations[1].args.space = 8 + f.account_ty.pod_len
    /\ info.data_len = 8 + f.account_ty.pod_len

(***************************************************************************)
(* has_one.                                                                *)
(***************************************************************************)
TheHasOne == f.constraints.has_one[1]

\* the reference the account stores could be read
Readable == ~ZeroCopy \/ env.loadable

Mismatch == env.data[TheHasOne.join_target] # env.keys[TheHasOne.join_target]

\* C22: a has_one check of X naming Y returns the has_one error
\* (ConstraintHasOne, or the custom error the constraint carries) when the
\* reference X stores differs from the key of Y and passes when they are
\* equal, whether Y is declared before or after X; on a Loader or
\* AccountLoader the reference is read through load, whose failure is
\* returned in place of the comparison.
C22_HasOneIffMismatch ==
    (Len(f.constraints.has_one) = 1 /\ LastEvaluated("HasOne"))
    => IF ~Readable THEN pc = "returned" /\ err = "LoadError"
       ELSE IF Mismatch
       THEN /\ pc = "returned"
            /\ err = IF IsSome(TheHasOne.error) THEN Unwrap(TheHasOne.error)
                     ELSE "ConstraintHasOne"
       ELSE err = NoError

\* X is a zero-copy account declared before Y, the load succeeded and the
\* stored reference is not the key of Y: ConstraintHasOne was returned
C22_Witness ==
    /\ f.ty = "AccountLoader"
    /\ ~env.target_first
    /\ env.loadable
    /\ Mismatch
    /\ LastEvaluated("HasOne")
    /\ pc = "returned"
    /\ err = "ConstraintHasOne"

(***************************************************************************)
(* init_if_needed on an account that is already initialized.               *)
(***************************************************************************)
\* the init check ran and took the path that creates nothing
Skipped ==
    /\ IsSome(f.constraints.init)
    /\ TheInit.if_needed
    /\ InitEntered
    /\ invocations = <<>>
    /\ pc \notin InvocationPcs

\* C23: after init_if_needed skipped the creation, the checks that follow
\* init in the linearized sequence are evaluated one after the other in
\* their positions; the run ends without error only when all of them were
\* evaluated, the key is the address the seeds give (when seeds are
\* declared) and the balance is rent exempt (when rent_exempt is
\* enforced).
C23_SkipKeepsChecks ==
    Skipped
    => /\ Len(evaluated) <= Len(constraints)
       /\ \A i \in 1..Len(evaluated) : evaluated[i] = constraints[i].kind
       /\ pc = "check" => idx = Len(evaluated) + 1
       /\ (pc = "returned" /\ err = NoError)
            => /\ Len(evaluated) = Len(constraints)
               /\ IsSome(f.constraints.seeds)
                    => info.key = find_program_address(TheSeeds.seeds)[1]
               /\ f.constraints.rent_exempt = Some([mode |-> "Enforce"])
                    => info.lamports >= env.rate * info.data_len

\* the creation was skipped and the seeds check that follows init then
\* failed the instruction
C23_Witness ==
    /\ Skipped
    /\ info.owner # SYSTEM_PROGRAM
    /\ evaluated = <<"Init", "Seeds">>
    /\ pc = "returned"
    /\ err = "ConstraintSeeds"

\* the owner the kind of the init gives the account it creates
AssignedOwner ==
    IF TheInit.kind.tag = "Program" THEN RequestedOwner ELSE TOKEN_PROGRAM

\* C24: when init_if_needed finds an account that exists already (its
\* owner is not the system program) and that owner is not the one the
\* kind would have assigned, the instruction returns an error.
C24_IfNeededChecksOwner ==
    (/\ Skipped
     /\ info.owner # SYSTEM_PROGRAM
     /\ info.owner # AssignedOwner
     /\ pc = "returned")
    => err # NoError

(***************************************************************************)
(* At most one init per account.                                           *)
(***************************************************************************)
\* the invocations that complete the creation of an account
Completes(inv) ==
    inv.ok /\ inv.op \in {"create_account", "assign", "create"}

\* the field whose account an invocation creates
TargetOf(inv) ==
    IF inv.op = "create" THEN inv.args.associated_token ELSE inv.args.to

\* the key of the account given to a field of the instruction
KeyOf(ident) ==
    IF ident = f.ident THEN info.key
    ELSE LET o == CHOOSE x \in {others[i] : i \in 1..Len(others)} :
                      x.f.ident = ident
         IN o.info.key

\* no two completed creations are on the same account
OneCreationPerAccount ==
    \A i, j \in 1..Len(invocations) :
        (i < j /\ Completes(invocations[i]) /\ Completes(invocations[j]))
        => KeyOf(TargetOf(invocations[i])) # KeyOf(TargetOf(invocations[j]))

DistinctKeys == \A i \in 1..Len(others) : others[i].info.key # info.key

\* C25, as claimed: in one execution of an instruction no account is
\* created by more than one init constraint, also when two fields that
\* carry init are given the same account.
C25_AtMostOneInit == Len(others) = 1 => OneCreationPerAccount

\* C25, amended: in one execution of an instruction whose fields that
\* carry init are given different accounts, no account is created by more
\* than one init constraint.
C25_AtMostOneInitDistinct ==
    (Len(others) = 1 /\ DistinctKeys) => OneCreationPerAccount

\* two fields with init were given different accounts and each init
\* created its own
C25_Witness ==
    /\ Len(others) = 1
    /\ DistinctKeys
    /\ others[1].done
    /\ pc = "returned"
    /\ err = NoError
    /\ Len(invocations) = 2
    /\ invocations[1].op = "create_account"
    /\ invocations[1].ok
    /\ invocations[1].args.to = "target"
    /\ invocations[2].op = "create_account"
    /\ invocations[2].ok
    /\ invocations[2].args.to = "second"
    /\ others[1].info.owner = PROGRAM_ID
    /\ info.owner = PROGRAM_ID

(***************************************************************************)
(* Seeds without a bump.                                                   *)
(***************************************************************************)
\* C26: a seeds check without a bump passes when the key of the account is
\* the address the seed list and the program id give with the canonical
\* bump and returns ConstraintSeeds for every other key, for the empty
\* seed list as for a non-empty one, with or without init.
C26_NoBumpIffCanonical ==
    (/\ IsSome(f.constraints.seeds)
     /\ IsNone(TheSeeds.bump)
     /\ LastEvaluated("Seeds"))
    => IF info.key = Canonical[1]
       THEN err = NoError
       ELSE pc = "returned" /\ err = "ConstraintSeeds"

\* the seed list is empty, no bump is given and the key is the canonical
\* address of the empty list: the check passed and the run ended
C26_Witness ==
    /\ IsSome(f.constraints.seeds)
    /\ TheSeeds.seeds = EmptySeeds
    /\ IsNone(TheSeeds.bump)
    /\ info.key = Canonical[1]
    /\ evaluated = <<"Seeds">>
    /\ pc = "returned"
    /\ err = NoError

(***************************************************************************)
(* close and zeroed.                                                       *)
(***************************************************************************)
\* C27: the close check returns ConstraintClose exactly when the account
\* to close and the account that receives its lamports have the same key,
\* and passes otherwise.
C27_CloseIffSameKey ==
    (IsSome(f.constraints.close) /\ LastEvaluated("Close"))
    => LET dest == env.keys[Unwrap(f.constraints.close).sol_dest] IN
       /\ (pc = "returned" /\ err = "ConstraintClose") <=> info.key = dest
       /\ info.key # dest => err = NoError

\* an account closed into itself was refused
C27_Witness ==
    /\ IsSome(f.constraints.close)
    /\ info.key = KEY_AUTHORITY
    /\ Unwrap(f.constraints.close).sol_dest = "authority"
    /\ LastEvaluated("Close")
    /\ pc = "returned"
    /\ err = "ConstraintClose"

\* one of the first 8 bytes of the buffer is not zero
HeaderNonZero == \E i \in 1..8 : info.data[i] # 0

\* C28: on a buffer of at least 8 bytes the zeroed check returns
\* ConstraintZero exactly when the first 8 bytes, read as a little-endian
\* integer, are not zero; it passes when the 8 bytes are all zero, whatever
\* the bytes after them.
C28_ZeroedIffHeaderNonZero ==
    (/\ IsSome(f.constraints.zeroed)
     /\ LastEvaluated("Zeroed")
     /\ Len(info.data) >= 8)
    => IF HeaderNonZero THEN pc = "returned" /\ err = "ConstraintZero"
       ELSE err = NoError

\* only the last byte of the header is not zero: ConstraintZero
C28_Witness ==
    /\ IsSome(f.constraints.zeroed)
    /\ Len(info.data) = 9
    /\ \A i \in 1..7 : info.data[i] = 0
    /\ info.data[8] # 0
    /\ info.data[9] = 0
    /\ LastEvaluated("Zeroed")
    /\ pc = "returned"
    /\ err = "ConstraintZero"

(***************************************************************************)
(* The transfer of the pre-funded path.                                    *)
(***************************************************************************)
\* init entered the Account Creator on an account with a balance
Prefunded ==
    /\ IsSome(f.constraints.init)
    /\ TheInit.kind.tag \in {"Program", "Token", "Mint"}
    /\ InitEntered
    /\ cur.current_lamports > 0
    /\ (pc \in CreatorPcs \/ invocations # <<>>)

\* max(minBalance(space), 1) minus the balance, floored at zero
Shortfall ==
    LET need == IF env.rate * cur.space >= 1 THEN env.rate * cur.space ELSE 1
    IN IF need > cur.current_lamports THEN need - cur.current_lamports ELSE 0

SeedSignedOps == {"create_account", "allocate", "assign"}

\* C30: signer seeds are passed only by a seeded field and only to its
\* create_account, allocate and assign invocations, each of which gets the
\* derived seed list; the transfer, the setup invocations and the create
\* call of the associated token program are issued without signer seeds,
\* and no invocation of an unseeded field carries any.
C30_SeedsScope ==
    IsSome(f.constraints.init)
    => \A i \in 1..Len(invocations) :
          LET inv == invocations[i] IN
          /\ inv.signer_seeds # None
                => /\ Seeded
                   /\ inv.op \in SeedSignedOps
                   /\ inv.signer_seeds = DerivedSeedList
          /\ (Seeded /\ inv.op \in SeedSignedOps) => inv.signer_seeds # None
          /\ inv.op \notin SeedSignedOps
                => ~inv.signed /\ inv.signer_seeds = None

\* a seeded token account with a balance below the minimum: the transfer
\* and initialize_account went out without seeds, allocate and assign
\* with them
C30_Witness ==
    /\ Seeded
    /\ TheInit.kind.tag = "Token"
    /\ Len(invocations) = 4
    /\ invocations[1].op = "transfer"
    /\ ~invocations[1].signed
    /\ invocations[1].signer_seeds = None
    /\ invocations[2].op = "allocate"
    /\ invocations[2].signer_seeds = DerivedSeedList
    /\ invocations[3].op = "assign"
    /\ invocations[3].signer_seeds = DerivedSeedList
    /\ invocations[4].op = "initialize_account"
    /\ invocations[4].signer_seeds = None
    /\ invocations[4].ok

(***************************************************************************)
(* init and seeds on one field.                                            *)
(***************************************************************************)
InitAndSeeds == IsSome(f.constraints.init) /\ IsSome(f.constraints.seeds)

\* C31, as claimed: on a field with init and seeds no invocation that
\* creates or sets up the account is issued before the seeds check of the
\* field has passed.
C31_SeedsBeforeCreation ==
    (InitAndSeeds /\ invocations # <<>>) => SeedsPassed

\* C31, amended: on a field with init and seeds the seeds check is
\* evaluated only after init is through: while an invocation of init is
\* pending the seeds check has not been evaluated, and once it has been
\* evaluated init was evaluated before it and no invocation is pending; a
\* seeds check that fails then ends the run with ConstraintSeeds.
C31_SeedsAfterCreation ==
    InitAndSeeds
    => /\ pc \in InvocationPcs => "Seeds" \notin Kinds(evaluated)
       /\ "Seeds" \in Kinds(evaluated)
            => /\ Len(evaluated) >= 2
               /\ evaluated[1] = "Init"
               /\ evaluated[2] = "Seeds"
               /\ \A i \in 1..Len(invocations) : invocations[i].ok
       /\ (LastEvaluated("Seeds") /\ err # NoError)
            => pc = "returned" /\ err = "ConstraintSeeds"

\* the account was created at a key that is not the derived address, and
\* only then the seeds check failed
C31_Witness ==
    /\ InitAndSeeds
    /\ info.key = KEY_T
    /\ Len(invocations) = 1
    /\ invocations[1].op = "create_account"
    /\ invocations[1].ok
    /\ evaluated = <<"Init", "Seeds">>
    /\ pc = "returned"
    /\ err = "ConstraintSeeds"

(***************************************************************************)
(* The rent handle.                                                        *)
(***************************************************************************)
\* the compiled sequence holds a step that creates an account
HasCreationStep ==
    \E i \in 1..Len(constraints) :
        /\ constraints[i].kind = "Init"
        /\ constraints[i].c.kind.tag \in {"Program", "Token", "Mint"}

\* C32: in every compiled sequence with an init of kind Program, Token or
\* Mint the rent handle is bound, whether the rent_exempt slot of the group
\* holds Enforce, Skip or nothing.
C32_RentBoundForCreation ==
    (pc # "generate" /\ HasCreationStep) => rent

(***************************************************************************)
(* The reach of a dup declaration and of the duplicate checks.             *)
(***************************************************************************)
\* the declared account a carries a dup declaration
HasDup(a) == \E g \in Targets(MaxFields) \cup Targets(1) : DeclaresDup(a, g)

\* C33: a field F that declares dup with target G is still checked against
\* every other field H that is not G: when F or H is mutable and their keys
\* are equal (and H does not name F in a dup declaration of its own), the
\* instruction does not succeed.
C33_DupLimitedToTarget ==
    (pc = "returned" /\ err = NoError)
    => \A F, H \in Leaves(accs) :
          (/\ F # H
           /\ HasDup(F)
           /\ ~Exempt(F, H)
           /\ LeafMutable(F) \/ LeafMutable(H))
          => keys[F] # keys[H]

\* C34: a mutable plain field and a field nested in a composite that have
\* the same key (and no dup declaration naming one another) fail the
\* instruction with the duplicate-account error, whether the composite is
\* declared before or after the plain field.
C34_CompositeBothOrders ==
    pc = "returned"
    => \A P, Q \in Leaves(accs) :
          (/\ Len(P) = 1
           /\ Len(Q) = 2
           /\ LeafMutable(P)
           /\ ~Exempt(P, Q)
           /\ keys[P] = keys[Q])
          => err = "ConstraintNoDup"

(***************************************************************************)
(* Completeness of the linearized sequence.                                *)
(***************************************************************************)
\* the declared constraints of one kind: the slot or the list of the group
Declared(kind) ==
    CASE kind = "Zeroed" -> f.constraints.zeroed
      [] kind = "Init" -> f.constraints.init
      [] kind = "Seeds" -> f.constraints.seeds
      [] kind = "AssociatedToken" -> f.constraints.associated_token
      [] kind = "Mut" -> f.constraints.mutable
      [] kind = "Signer" -> f.constraints.signer
      [] kind = "HasOne" -> f.constraints.has_one
      [] kind = "Dup" -> f.constraints.dup
      [] kind = "Literal" -> f.constraints.literal
      [] kind = "Raw" -> f.constraints.raw
      [] kind = "Owner" -> f.constraints.owner
      [] kind = "RentExempt" -> f.constraints.rent_exempt
      [] kind = "Executable" -> f.constraints.executable
      [] kind = "State" -> f.constraints.state
      [] kind = "Close" -> f.constraints.close
      [] kind = "Address" -> f.constraints.address

\* C35: the linearized sequence holds exactly the declared constraints: for
\* every kind the entries of that kind are the populated slot (one entry)
\* or the elements of the list, no entry has another kind, and so the
\* length of the sequence is the number of declared constraints.
C35_LinearizeExact ==
    pc # "generate" =>
        /\ \A i \in 1..Len(constraints) :
              constraints[i].kind \in Kinds(PriorityOrder)
        /\ \A kind \in Kinds(PriorityOrder) : Emitted(kind) = Declared(kind)

\* a group with a dup declaration and two raw constraints has been
\* linearized into three entries
C35_Witness ==
    /\ pc # "generate"
    /\ IsSome(f.constraints.dup)
    /\ Len(f.constraints.raw) = 2
    /\ f.constraints.raw[1] # f.constraints.raw[2]
    /\ Len(constraints) = 3

(***************************************************************************)
(* Checks other than init are read-only.                                   *)
(***************************************************************************)
\* a step that evaluates a check other than init
EvaluatesCheck ==
    /\ Len(evaluated') = Len(evaluated) + 1
    /\ evaluated'[Len(evaluated')] # "Init"

\* C36: a step that evaluates a check other than init, whether the check
\* passes or fails, issues no invocation and leaves the balance, size,
\* owner and buffer of the account and the balance of the payer unchanged.
C36_ChecksReadOnly ==
    [][EvaluatesCheck =>
        /\ invocations' = invocations
        /\ info' = info
        /\ payer' = payer]_vars

\* after an init created the account, a has_one check was evaluated and
\* failed: the account is as the creation left it and nothing else was
\* invoked
C36_Witness ==
    /\ pc = "returned"
    /\ err = "ConstraintHasOne"
    /\ Len(evaluated) >= 2
    /\ evaluated[1] = "Init"
    /\ evaluated[Len(evaluated)] = "HasOne"
    /\ Len(invocations) = 1
    /\ invocations[1].op = "create_account"
    /\ invocations[1].ok
    /\ info.lamports > 0
    /\ info.owner = PROGRAM_ID

(***************************************************************************)
(* Composite fields.                                                       *)
(***************************************************************************)
\* the group holds nothing but raw and literal constraints
OnlyRawAndLiteral ==
    /\ \A kind \in Kinds(PriorityOrder) \ {"Raw", "Literal"} :
          Declared(kind) = <<>>

\* C37: compiling a composite field panics exactly when its group holds a
\* constraint other than raw and literal, and when it does not panic the
\* emitted checks are the literals followed by the raws, each in declared
\* order, evaluated in that order at run time.
C37_CompositeRawLiteralOnly ==
    pc # "generate_composite" =>
        /\ pc = "panic" <=> ~OnlyRawAndLiteral
        /\ pc # "panic" =>
              /\ constraints = Tagged("Literal", f.constraints.literal)
                                 \o Tagged("Raw", f.constraints.raw)
              /\ \A i \in 1..Len(evaluated) :
                    evaluated[i] = constraints[i].kind

\* a composite field with one literal and one raw constraint was compiled
\* and both checks passed, the literal first
C37_Witness ==
    /\ f.ty = "CompositeField"
    /\ pc = "returned"
    /\ err = NoError
    /\ Len(f.constraints.literal) = 1
    /\ Len(f.constraints.raw) = 1
    /\ evaluated = <<"Literal", "Raw">>

\* a composite field with a dup declaration and a raw constraint panicked
C37_WitnessPanic ==
    /\ f.ty = "CompositeField"
    /\ pc = "panic"
    /\ IsSome(f.constraints.dup)
    /\ Len(f.constraints.raw) = 1

(***************************************************************************)
(* Metas and infos of a CpiContext.                                        *)
(***************************************************************************)
\* both lists of the context have been computed
BothListed == infos # None /\ metas # None

TheInfos == Unwrap(infos)
TheMetas == Unwrap(metas).metas
TheOverride == Unwrap(metas).is_signer

\* the infos are the declared account, the remaining accounts in order and
\* then the target program, and there is one meta less than infos
InfosThenProgram ==
    /\ Len(TheInfos) = Len(TheMetas) + 1
    /\ TheInfos[Len(TheInfos)] = ctx.program
    /\ SubSeq(TheInfos, 1, Len(TheInfos) - 1)
            = <<ctx.accounts>> \o ctx.remaining_accounts

\* C38 as stated: the i-th meta has the key, the writable flag and the
\* signer flag of the i-th info, and the infos have one more entry, the
\* target program, at the end.
C38_MetasMatchInfos ==
    BothListed =>
        /\ InfosThenProgram
        /\ \A i \in 1..Len(TheMetas) :
              /\ TheMetas[i].pubkey = TheInfos[i].key
              /\ TheMetas[i].is_writable = TheInfos[i].is_writable
              /\ TheMetas[i].is_signer = TheInfos[i].is_signer

\* C38: the i-th meta has the key and the writable flag of the i-th info,
\* the declared account first and then the remaining accounts in order, and
\* the infos have one more entry, the target program, at the end; the
\* signer flag of the meta of a remaining account is that of its info, and
\* the signer flag of the meta of the declared account is the override
\* given to to_account_metas, or that of its info when none is given.
C38_MetasMatchInfosUpToOverride ==
    BothListed =>
        /\ InfosThenProgram
        /\ \A i \in 1..Len(TheMetas) :
              /\ TheMetas[i].pubkey = TheInfos[i].key
              /\ TheMetas[i].is_writable = TheInfos[i].is_writable
              /\ TheMetas[i].is_signer =
                    IF i = 1 /\ IsSome(TheOverride) THEN Unwrap(TheOverride)
                    ELSE TheInfos[i].is_signer

\* a context with two remaining accounts was listed with the override
\* Some(TRUE): the meta of the declared account is a signer although its
\* info is not, the meta of the first remaining account is not
C38_Witness ==
    /\ pc = "cpi"
    /\ BothListed
    /\ Len(ctx.remaining_accounts) = 2
    /\ TheOverride = Some(TRUE)
    /\ ~ctx.accounts.is_signer
    /\ ~ctx.remaining_accounts[1].is_signer
    /\ ctx.remaining_accounts[2].is_writable
    /\ TheMetas[1].is_signer
    /\ ~TheMetas[2].is_signer
    /\ Len(TheInfos) = 4

(***************************************************************************)
(* UncheckedAccount::try_accounts.                                         *)
(***************************************************************************)
\* C39: a call of try_accounts on a non-empty slice returns its first
\* account and leaves the slice without that one account; a call on an
\* empty slice returns AccountNotEnoughKeys and leaves the slice as it was.
C39_TryAccountsTakesFirst ==
    [][result' # result \/ accounts' # accounts =>
        IF accounts = <<>>
        THEN /\ result' = Some(Err("AccountNotEnoughKeys"))
             /\ accounts' = accounts
        ELSE /\ result' = Some(Ok(Head(accounts)))
             /\ accounts' = Tail(accounts)
             /\ Len(accounts') = Len(accounts) - 1]_vars

\* a call returned the first of several accounts with different keys and
\* left the others
C39_Witness ==
    /\ pc = "try_accounts"
    /\ result # None
    /\ Unwrap(result).tag = "Ok"
    /\ Len(accounts) = MaxAccounts - 1
    /\ Unwrap(result).value.key # accounts[1].key

\* a call on the empty slice returned the error
C39_WitnessEmpty ==
    /\ pc = "try_accounts"
    /\ result = Some(Err("AccountNotEnoughKeys"))
    /\ accounts = <<>>
====
